---- MODULE Spec2Model ----
(***************************************************************************)
(* Verification model of the multi-cursor selection engine of              *)
(* crates/editor/src/editor.rs (struct Editor) together with the part of   *)
(* the text buffer it consumes (anchors, atomic edits, transactions,       *)
(* undo/redo).                                                             *)
(*                                                                         *)
(* Conventions                                                             *)
(*  - Option<T> is a sequence: <<>> is None, <<x>> is Some(x).             *)
(*  - A character is a one-character string; a text is a sequence of them. *)
(*  - The buffer is a sequence of cells, one per character ever inserted,  *)
(*    deleted characters staying as invisible cells (the fragments of the  *)
(*    buffer).  An anchor is the id of a cell: a left-biased anchor names  *)
(*    the cell that ends at the position (0 is Anchor::min), a             *)
(*    right-biased anchor names the cell that starts at it (0 is           *)
(*    Anchor::max).                                                        *)
(*  - Every handler is an operator from a state record to a state record,  *)
(*    so that handlers that call one another compose; an action commits    *)
(*    the record a handler returns to the variables.                       *)
(*  - The cursor-blink state (show_local_cursors, blink_epoch,             *)
(*    blinking_paused and the spawned timers) is written by                *)
(*    pause_cursor_blinking, the last call of update_selections.  That     *)
(*    call touches nothing else and nothing else reads the blink state,    *)
(*    so update_selections is modelled without it and the blink            *)
(*    specification adds it to its own selection update.                   *)
(***************************************************************************)
EXTENDS Integers, Sequences, FiniteSets, TLC

\* ------------------------------------------------------------------ bounds
\* Highest transaction id the buffer's local clock hands out.
MaxTx == 2
\* Highest selection id (next_selection_id is capped in the guards).
MaxSelId == 2
\* Number of ranges a caller passes to select_ranges.
MaxRanges == 2
\* Number of ranges passed to select_ranges where the order is arbitrary.
MaxAnyRanges == 3
\* Highest selection id where the order of the ranges is arbitrary.
MaxAnyId == 3

VARIABLES
    cells,                \* buffer: every character ever inserted, in document order
    undo_stack,           \* buffer history: transactions that can be undone
    redo_stack,           \* buffer history: transactions that can be redone
    transaction_depth,    \* buffer history: nesting depth of open transactions
    next_tx_id,           \* buffer local clock: the next transaction id
    contiguous,           \* buffer version = end version of the top undo transaction
    idle,                 \* more than the group interval passed since the last edit
    selections,           \* Editor::selections (anchors)
    pending_selection,    \* Editor::pending_selection
    next_selection_id,    \* Editor::next_selection_id
    selection_history,    \* Editor::selection_history
    select_larger_syntax_node_stack,
    add_selections_state,
    select_next_state,
    autoclose_stack,
    autoscroll_request,
    clipboard,            \* the application clipboard: Option<[text, metadata]>
    folds,                \* folded ranges of the display map (anchor ranges)
    columnar_selection_tail,  \* Editor::columnar_selection_tail
    active_diagnostics,   \* Editor::active_diagnostics: the pinned diagnostic group
    scroll_position,      \* Editor::scroll_position (the row scrolled to)
    focused,              \* Editor::focused
    show_local_cursors,   \* Editor::show_local_cursors
    blink_epoch,          \* Editor::blink_epoch
    blinking_paused,      \* Editor::blinking_paused
    blink_tasks,          \* the spawned timer tasks that have not fired yet
    panicked,             \* a handler hit a failed unwrap / assertion
    tx_log,               \* history variable: text and selections at the start and
                          \* end of every editor transaction, by the id it opened
    last_op               \* the handler that ran last, with its inputs and result

vars == <<cells, undo_stack, redo_stack, transaction_depth, next_tx_id, contiguous, idle,
          selections, pending_selection, next_selection_id, selection_history,
          select_larger_syntax_node_stack, add_selections_state, select_next_state,
          autoclose_stack, autoscroll_request, clipboard, folds,
          columnar_selection_tail, active_diagnostics, scroll_position, focused,
          show_local_cursors, blink_epoch, blinking_paused, blink_tasks, panicked, tx_log,
          last_op>>

\* The state as one record, the argument and result of every handler.
State == [cells |-> cells, undo_stack |-> undo_stack, redo_stack |-> redo_stack,
          transaction_depth |-> transaction_depth, next_tx_id |-> next_tx_id,
          contiguous |-> contiguous, idle |-> idle,
          selections |-> selections, pending_selection |-> pending_selection,
          next_selection_id |-> next_selection_id,
          selection_history |-> selection_history,
          select_larger_syntax_node_stack |-> select_larger_syntax_node_stack,
          add_selections_state |-> add_selections_state,
          select_next_state |-> select_next_state,
          autoclose_stack |-> autoclose_stack,
          autoscroll_request |-> autoscroll_request,
          clipboard |-> clipboard, folds |-> folds,
          columnar_selection_tail |-> columnar_selection_tail,
          active_diagnostics |-> active_diagnostics,
          scroll_position |-> scroll_position, focused |-> focused,
          show_local_cursors |-> show_local_cursors, blink_epoch |-> blink_epoch,
          blinking_paused |-> blinking_paused, blink_tasks |-> blink_tasks,
          panicked |-> panicked, tx_log |-> tx_log]

Commit(s, op) ==
    /\ cells' = s.cells
    /\ undo_stack' = s.undo_stack
    /\ redo_stack' = s.redo_stack
    /\ transaction_depth' = s.transaction_depth
    /\ next_tx_id' = s.next_tx_id
    /\ contiguous' = s.contiguous
    /\ idle' = s.idle
    /\ selections' = s.selections
    /\ pending_selection' = s.pending_selection
    /\ next_selection_id' = s.next_selection_id
    /\ selection_history' = s.selection_history
    /\ select_larger_syntax_node_stack' = s.select_larger_syntax_node_stack
    /\ add_selections_state' = s.add_selections_state
    /\ select_next_state' = s.select_next_state
    /\ autoclose_stack' = s.autoclose_stack
    /\ autoscroll_request' = s.autoscroll_request
    /\ clipboard' = s.clipboard
    /\ folds' = s.folds
    /\ columnar_selection_tail' = s.columnar_selection_tail
    /\ active_diagnostics' = s.active_diagnostics
    /\ scroll_position' = s.scroll_position
    /\ focused' = s.focused
    /\ show_local_cursors' = s.show_local_cursors
    /\ blink_epoch' = s.blink_epoch
    /\ blinking_paused' = s.blinking_paused
    /\ blink_tasks' = s.blink_tasks
    /\ panicked' = s.panicked
    /\ tx_log' = s.tx_log
    /\ last_op' = op

Min(a, b) == IF a < b THEN a ELSE b
Max(a, b) == IF a > b THEN a ELSE b

\* ------------------------------------------------------------ text buffer
\* Number of visible cells among the first k cells.
count_visible(c, k) == Cardinality({i \in 1..k : c[i].vis})

\* MultiBufferSnapshot::len
buffer_len(c) == count_visible(c, Len(c))

\* Index of the n-th visible cell (1 <= n <= buffer_len).
nth_visible(c, n) == CHOOSE i \in 1..Len(c) : c[i].vis /\ count_visible(c, i) = n

\* Index of the cell with the given id.
index_of(c, id) == CHOOSE i \in 1..Len(c) : c[i].id = id

\* MultiBufferSnapshot::text
buffer_text(c) == [n \in 1..buffer_len(c) |-> c[nth_visible(c, n)].ch]

\* MultiBufferSnapshot::anchor_before (Bias::Left)
anchor_before(c, offset) ==
    IF offset <= 0 THEN 0
    ELSE c[nth_visible(c, Min(offset, buffer_len(c)))].id

\* MultiBufferSnapshot::anchor_after (Bias::Right)
anchor_after(c, offset) ==
    IF offset >= buffer_len(c) THEN 0
    ELSE c[nth_visible(c, offset + 1)].id

\* Offset of a left-biased anchor in the snapshot c.
summary_before(c, a) == IF a = 0 THEN 0 ELSE count_visible(c, index_of(c, a))

\* Offset of a right-biased anchor in the snapshot c.
summary_after(c, a) == IF a = 0 THEN buffer_len(c) ELSE count_visible(c, index_of(c, a) - 1)

\* One range of an edit: the new text goes in front of the cell at offset
\* start (behind the invisible cells that sit there), the cells of
\* [start, end) become invisible.
replace_range(c, start, end, new_text) ==
    LET p == IF start >= buffer_len(c) THEN Len(c) + 1 ELSE nth_visible(c, start + 1)
        added == [k \in 1..Len(new_text) |->
                    [id |-> Len(c) + k, ch |-> new_text[k], vis |-> TRUE]]
        hidden == [i \in 1..Len(c) |->
                    IF c[i].vis /\ count_visible(c, i) > start /\ count_visible(c, i) <= end
                    THEN [c[i] EXCEPT !.vis = FALSE] ELSE c[i]]
    IN SubSeq(hidden, 1, p - 1) \o added \o SubSeq(hidden, p, Len(c))

\* Buffer::apply_local_edit: all ranges are offsets of the snapshot before the
\* edit, ascending and disjoint; applying them last to first keeps them valid.
RECURSIVE apply_local_edit(_, _, _)
apply_local_edit(c, ranges, new_text) ==
    IF ranges = <<>> THEN c
    ELSE LET r == ranges[Len(ranges)]
         IN apply_local_edit(replace_range(c, r.start, r.end, new_text),
                             SubSeq(ranges, 1, Len(ranges) - 1), new_text)

\* language::Buffer::edit_internal: skip ranges that change nothing and
\* coalesce ranges that touch or overlap.
RECURSIVE coalesce_ranges(_, _, _)
coalesce_ranges(ranges, new_text, acc) ==
    IF ranges = <<>> THEN acc
    ELSE LET r == Head(ranges)
             n == Len(acc)
         IN IF new_text = <<>> /\ r.start = r.end
            THEN coalesce_ranges(Tail(ranges), new_text, acc)
            ELSE IF n > 0 /\ acc[n].end >= r.start
                 THEN coalesce_ranges(Tail(ranges), new_text,
                         [acc EXCEPT ![n].end = Max(acc[n].end, r.end)])
                 ELSE coalesce_ranges(Tail(ranges), new_text, Append(acc, r))

\* Ids of the cells an edit inserted / made invisible.
inserted_by(old, new) == {new[i].id : i \in 1..Len(new)} \ {old[i].id : i \in 1..Len(old)}
deleted_by(old, new) ==
    {old[i].id : i \in {j \in 1..Len(old) : old[j].vis}}
        \ {new[i].id : i \in {j \in 1..Len(new) : new[j].vis}}

\* History::group: the transaction on top joins the one below it when it began
\* within the group interval of that one's last edit and at its end version.
\* A transaction is [id, ins, del, linked, members]: the cells its edits
\* inserted and deleted, whether it can join the one below, and the ids of
\* the transactions grouped into it, oldest first.
RECURSIVE history_group(_)
history_group(stack) ==
    LET n == Len(stack)
    IN IF n >= 2 /\ stack[n].linked
       THEN history_group(Append(SubSeq(stack, 1, n - 2),
                [stack[n - 1] EXCEPT !.ins = @ \cup stack[n].ins,
                                     !.del = @ \cup stack[n].del,
                                     !.members = @ \o stack[n].members]))
       ELSE stack

\* Buffer::start_transaction_at: Some(id) only for the outermost transaction.
buffer_start_transaction_at(s) ==
    IF s.transaction_depth = 0
    THEN [s |-> [s EXCEPT !.transaction_depth = 1,
                          !.next_tx_id = @ + 1,
                          !.undo_stack = Append(@, [id |-> s.next_tx_id,
                                                    ins |-> {}, del |-> {},
                                                    linked |-> s.contiguous /\ ~s.idle,
                                                    members |-> <<s.next_tx_id>>])],
          id |-> <<s.next_tx_id>>]
    ELSE [s |-> [s EXCEPT !.transaction_depth = @ + 1], id |-> <<>>]

\* Buffer::end_transaction_at: Some(id of the group) when the outermost
\* transaction closes and has edits; a transaction without edits is dropped.
buffer_end_transaction_at(s) ==
    IF s.transaction_depth = 1
    THEN LET top == s.undo_stack[Len(s.undo_stack)]
         IN IF top.ins = {} /\ top.del = {}
            THEN [s |-> [s EXCEPT !.transaction_depth = 0,
                                  !.undo_stack = SubSeq(@, 1, Len(@) - 1)],
                  id |-> <<>>]
            ELSE LET grouped == history_group(s.undo_stack)
                 IN [s |-> [s EXCEPT !.transaction_depth = 0,
                                     !.undo_stack = grouped,
                                     !.redo_stack = <<>>,
                                     !.contiguous = TRUE,
                                     !.idle = FALSE],
                     id |-> <<grouped[Len(grouped)].id>>]
    ELSE [s |-> [s EXCEPT !.transaction_depth = @ - 1], id |-> <<>>]

\* Buffer::edit: the edit is a transaction of its own unless one is open.
buffer_edit(s, ranges, new_text) ==
    LET rs == coalesce_ranges(ranges, new_text, <<>>)
    IN IF rs = <<>> THEN s
       ELSE LET s1 == buffer_start_transaction_at(s).s
                c2 == apply_local_edit(s1.cells, rs, new_text)
                n == Len(s1.undo_stack)
                s2 == [s1 EXCEPT !.cells = c2,
                                 !.undo_stack[n].ins = @ \cup inserted_by(s1.cells, c2),
                                 !.undo_stack[n].del = @ \cup deleted_by(s1.cells, c2)]
            IN buffer_end_transaction_at(s2).s

\* Visibility of the cells after a transaction is undone / redone.
set_visibility(c, hide, show) ==
    [i \in 1..Len(c) |->
        IF c[i].id \in hide THEN [c[i] EXCEPT !.vis = FALSE]
        ELSE IF c[i].id \in show THEN [c[i] EXCEPT !.vis = TRUE]
        ELSE c[i]]

\* Buffer::undo: Some(id) of the transaction undone, None when there is none.
buffer_undo(s) ==
    IF s.undo_stack = <<>> THEN [s |-> s, id |-> <<>>]
    ELSE LET n == Len(s.undo_stack)
             t == s.undo_stack[n]
         IN [s |-> [s EXCEPT !.undo_stack = SubSeq(@, 1, n - 1),
                             !.redo_stack = Append(@, t),
                             !.cells = set_visibility(@, t.ins, t.del \ t.ins),
                             !.contiguous = FALSE],
             id |-> <<t.id>>]

\* Buffer::redo
buffer_redo(s) ==
    IF s.redo_stack = <<>> THEN [s |-> s, id |-> <<>>]
    ELSE LET n == Len(s.redo_stack)
             t == s.redo_stack[n]
         IN [s |-> [s EXCEPT !.redo_stack = SubSeq(@, 1, n - 1),
                             !.undo_stack = Append(@, t),
                             !.cells = set_visibility(@, t.del, t.ins \ t.del),
                             !.contiguous = FALSE],
             id |-> <<t.id>>]

\* ------------------------------------------------------------- selections
NoGoal == [kind |-> "None", column |-> 0]

\* Selection::head / Selection::tail
head(sel) == IF sel.reversed THEN sel.start ELSE sel.end
tail(sel) == IF sel.reversed THEN sel.end ELSE sel.start

\* Editor::resolve_selection
resolve_selection(c, sel) ==
    [id |-> sel.id, start |-> summary_before(c, sel.start),
     end |-> summary_before(c, sel.end), reversed |-> sel.reversed, goal |-> sel.goal]

\* Editor::resolve_selections
resolve_selections(c, sels) == [i \in 1..Len(sels) |-> resolve_selection(c, sels[i])]

\* The iterator of Editor::local_selections: the pending selection absorbs
\* every committed selection it overlaps or touches.
RECURSIVE merge_pending(_, _)
merge_pending(pending, rest) ==
    IF rest = <<>> THEN <<pending>>
    ELSE LET next == Head(rest)
         IN IF pending.start <= next.end /\ pending.end >= next.start
            THEN merge_pending([pending EXCEPT !.start = Min(@, next.start),
                                               !.end = Max(@, next.end)], Tail(rest))
            ELSE IF next.end < pending.start
                 THEN <<next>> \o merge_pending(pending, Tail(rest))
                 ELSE <<pending>> \o rest

\* Editor::local_selections
local_selections(s) ==
    LET committed == resolve_selections(s.cells, s.selections)
    IN IF s.pending_selection = <<>> THEN committed
       ELSE merge_pending(resolve_selection(s.cells, s.pending_selection[1].selection),
                          committed)

\* The merge loop with a strict comparison: touching selections stay apart.
RECURSIVE merge_overlapping_strict(_, _)
merge_overlapping_strict(sels, i) ==
    IF i > Len(sels) THEN sels
    ELSE IF sels[i - 1].end > sels[i].start
         THEN LET removed == sels[i]
                  kept == [sels[i - 1] EXCEPT !.start = Min(@, removed.start),
                                              !.end = Max(@, removed.end)]
              IN merge_overlapping_strict(SubSeq(sels, 1, i - 2) \o <<kept>>
                                              \o SubSeq(sels, i + 1, Len(sels)), i)
         ELSE merge_overlapping_strict(sels, i + 1)

\* The merge loop of Editor::update_selections, i being the loop index
\* (the code's i + 1, sequences starting at 1).
RECURSIVE merge_overlapping(_, _)
merge_overlapping(sels, i) ==
    IF i > Len(sels) THEN sels
    ELSE IF sels[i - 1].end >= sels[i].start
         THEN LET removed == sels[i]
                  kept == [sels[i - 1] EXCEPT !.start = Min(@, removed.start),
                                              !.end = Max(@, removed.end)]
              IN merge_overlapping(SubSeq(sels, 1, i - 2) \o <<kept>>
                                       \o SubSeq(sels, i + 1, Len(sels)), i)
         ELSE merge_overlapping(sels, i + 1)

\* update_selections popping the top entry once instead of in a loop.
pop_autoclose_stack_once(c, stack, sels) ==
    IF stack = <<>> THEN stack
    ELSE LET top == stack[Len(stack)]
             inside ==
                 /\ Len(sels) = Len(top.ranges)
                 /\ \A i \in 1..Len(sels) :
                        /\ summary_before(c, top.ranges[i].start) <= head(sels[i])
                        /\ summary_after(c, top.ranges[i].end) >= head(sels[i])
         IN IF inside THEN stack ELSE SubSeq(stack, 1, Len(stack) - 1)

\* The autoclose loop of Editor::update_selections: pop entries until the
\* top one has a range around the head of every selection.
RECURSIVE pop_autoclose_stack(_, _, _)
pop_autoclose_stack(c, stack, sels) ==
    IF stack = <<>> THEN stack
    ELSE LET top == stack[Len(stack)]
             inside ==
                 /\ Len(sels) = Len(top.ranges)
                 /\ \A i \in 1..Len(sels) :
                        /\ summary_before(c, top.ranges[i].start) <= head(sels[i])
                        /\ summary_after(c, top.ranges[i].end) >= head(sels[i])
         IN IF inside THEN stack
            ELSE pop_autoclose_stack(c, SubSeq(stack, 1, Len(stack) - 1), sels)

\* Editor::set_selections
set_selections(s, sels) == [s EXCEPT !.selections = sels]

\* Editor::update_selections; sels are offsets of the current snapshot.
update_selections(s, sels, autoscroll) ==
    LET merged == merge_overlapping(sels, 2)
        s1 == [s EXCEPT !.pending_selection = <<>>,
                        !.add_selections_state = <<>>,
                        !.select_next_state = <<>>,
                        !.select_larger_syntax_node_stack = <<>>,
                        !.autoclose_stack = pop_autoclose_stack(s.cells, @, merged),
                        !.autoscroll_request = IF autoscroll = <<>> THEN @ ELSE autoscroll]
    IN set_selections(s1,
           [i \in 1..Len(merged) |->
               [id |-> merged[i].id,
                start |-> anchor_before(s.cells, merged[i].start),
                end |-> anchor_before(s.cells, merged[i].end),
                reversed |-> merged[i].reversed,
                goal |-> merged[i].goal]])

\* Editor::select_ranges; ranges is a sequence of [start, end], an end before
\* its start making a reversed selection.
select_ranges(s, ranges, autoscroll) ==
    LET sels == [i \in 1..Len(ranges) |->
                    [id |-> s.next_selection_id + i - 1,
                     start |-> Min(ranges[i].start, ranges[i].end),
                     end |-> Max(ranges[i].start, ranges[i].end),
                     reversed |-> ranges[i].start > ranges[i].end,
                     goal |-> NoGoal]]
    IN update_selections([s EXCEPT !.next_selection_id = @ + Len(ranges)], sels, autoscroll)


\* ------------------------------------------------------- rows and columns
\* Offset of the start of the line that contains offset (ToPoint, column 0).
line_start(text, offset) ==
    LET nl == {i \in 1..offset : text[i] = "\n"}
    IN IF nl = {} THEN 0 ELSE CHOOSE i \in nl : \A j \in nl : j <= i

\* Point::row and Point::column of an offset.
row_of(text, offset) == Cardinality({i \in 1..offset : text[i] = "\n"})
column_of(text, offset) == offset - line_start(text, offset)

\* MultiBufferSnapshot::max_point().row
max_row(text) == row_of(text, Len(text))

\* Offset of Point::new(row, 0), clipped to the end of the text.
row_start(text, row) ==
    IF row = 0 THEN 0
    ELSE IF row > max_row(text) THEN Len(text)
    ELSE CHOOSE i \in 1..Len(text) : text[i] = "\n" /\ row_of(text, i) = row

\* Sequencing of the statements of a handler: value is computed once and
\* handed to the rest of the handler.
Then(value, Rest(_)) == CHOOSE result \in {Rest(v) : v \in {value}} : TRUE

\* ---------------------------------------------------------- transactions
Put(f, k, v) == [x \in DOMAIN f \cup {k} |-> IF x = k THEN v ELSE f[x]]

\* end_selection leaving the columnar tail in place.
end_selection_keeping_columnar_tail(s) ==
    IF s.pending_selection # <<>>
    THEN update_selections(s, local_selections(s), <<>>)
    ELSE s

\* Editor::end_selection
end_selection(s) ==
    LET s1 == [s EXCEPT !.columnar_selection_tail = <<>>]
    IN IF s.pending_selection # <<>>
       THEN update_selections(s1, local_selections(s1), <<>>)
       ELSE s1

\* start_transaction_at recording no snapshot.
start_transaction_at_unrecorded(s) == buffer_start_transaction_at(end_selection(s)).s

\* Editor::start_transaction_at
start_transaction_at(s) ==
    LET s1 == end_selection(s)
        r == buffer_start_transaction_at(s1)
    IN IF r.id # <<>>
       THEN [r.s EXCEPT
               !.selection_history = Put(@, r.id[1],
                   [before |-> s1.selections, after |-> <<>>]),
               !.tx_log = Put(@, r.id[1],
                   [text0 |-> buffer_text(s1.cells),
                    sels0 |-> resolve_selections(s1.cells, s1.selections),
                    text1 |-> <<>>, sels1 |-> <<>>, anchors1 |-> <<>>])]
       ELSE r.s

\* end_transaction_at recording the snapshot under the id the transaction
\* opened instead of the id the buffer returns.
end_transaction_at_own_id(s) ==
    LET r == buffer_end_transaction_at(s)
        opened == s.undo_stack[Len(s.undo_stack)].id
    IN IF r.id # <<>>
       THEN [r.s EXCEPT
               !.selection_history[opened].after = <<r.s.selections>>,
               !.tx_log[opened].text1 = <<buffer_text(r.s.cells)>>,
               !.tx_log[opened].sels1 = <<resolve_selections(r.s.cells, r.s.selections)>>,
               !.tx_log[opened].anchors1 = <<r.s.selections>>]
       ELSE r.s

\* Editor::end_transaction_at; the unwrap fails when the buffer names a
\* transaction the editor recorded no snapshot for.
end_transaction_at(s) ==
    LET r == buffer_end_transaction_at(s)
        opened == s.undo_stack[Len(s.undo_stack)].id
    IN IF r.id # <<>>
       THEN IF r.id[1] \in DOMAIN r.s.selection_history
            THEN [r.s EXCEPT
                    !.selection_history[r.id[1]].after = <<r.s.selections>>,
                    !.tx_log = IF opened \in DOMAIN @
                               THEN [@ EXCEPT
                                       ![opened].text1 = <<buffer_text(r.s.cells)>>,
                                       ![opened].sels1 =
                                           <<resolve_selections(r.s.cells, r.s.selections)>>,
                                       ![opened].anchors1 = <<r.s.selections>>]
                               ELSE @]
            ELSE [r.s EXCEPT !.panicked = TRUE]
       ELSE r.s

\* Editor::request_autoscroll
request_autoscroll(s, autoscroll) == [s EXCEPT !.autoscroll_request = <<autoscroll>>]

\* undo leaving the selections alone.
undo_text_only(s) ==
    LET r == buffer_undo(s)
    IN IF r.id # <<>> THEN request_autoscroll(r.s, "Fit") ELSE r.s

\* undo asking for the autoscroll whether or not a transaction was undone.
undo_always_autoscroll(s) ==
    LET r == buffer_undo(s)
    IN request_autoscroll(
           IF r.id # <<>> /\ r.id[1] \in DOMAIN r.s.selection_history
           THEN set_selections(r.s, r.s.selection_history[r.id[1]].before)
           ELSE r.s, "Fit")

\* Editor::undo
undo(s) ==
    LET r == buffer_undo(s)
    IN IF r.id # <<>>
       THEN request_autoscroll(
                IF r.id[1] \in DOMAIN r.s.selection_history
                THEN set_selections(r.s, r.s.selection_history[r.id[1]].before)
                ELSE r.s, "Fit")
       ELSE r.s

\* redo installing the snapshot taken before the transaction.
redo_installing_before(s) ==
    LET r == buffer_redo(s)
    IN IF r.id # <<>>
       THEN request_autoscroll(
                IF r.id[1] \in DOMAIN r.s.selection_history
                THEN set_selections(r.s, r.s.selection_history[r.id[1]].before)
                ELSE r.s, "Fit")
       ELSE r.s

\* Editor::redo
redo(s) ==
    LET r == buffer_redo(s)
    IN IF r.id # <<>>
       THEN request_autoscroll(
                IF /\ r.id[1] \in DOMAIN r.s.selection_history
                   /\ r.s.selection_history[r.id[1]].after # <<>>
                THEN set_selections(r.s, r.s.selection_history[r.id[1]].after[1])
                ELSE r.s, "Fit")
       ELSE r.s

\* ---------------------------------------------------------------- editing
\* insert anchoring the new selections before the ranges it replaces.
insert_anchored_before(s, text) ==
    LET s1 == start_transaction_at(s)
        old_selections == local_selections(s1)
        new_selections == [i \in 1..Len(old_selections) |->
            [id |-> old_selections[i].id,
             start |-> anchor_before(s1.cells, old_selections[i].start),
             end |-> anchor_before(s1.cells, old_selections[i].start),
             reversed |-> FALSE, goal |-> NoGoal]]
        edit_ranges == [i \in 1..Len(old_selections) |->
            [start |-> old_selections[i].start, end |-> old_selections[i].end]]
        s2 == buffer_edit(s1, edit_ranges, text)
        resolved == [i \in 1..Len(new_selections) |->
            [new_selections[i] EXCEPT !.start = summary_before(s2.cells, @),
                                      !.end = summary_before(s2.cells, @)]]
        s3 == update_selections(s2, resolved, <<"Fit">>)
    IN end_transaction_at(s3)

\* Editor::insert
insert(s, text) ==
    Then(start_transaction_at(s), LAMBDA s1 :
    Then(local_selections(s1), LAMBDA old_selections :
    Then([i \in 1..Len(old_selections) |->
            [id |-> old_selections[i].id,
             start |-> anchor_after(s1.cells, old_selections[i].start),
             end |-> anchor_after(s1.cells, old_selections[i].end),
             reversed |-> FALSE, goal |-> NoGoal]], LAMBDA new_selections :
    Then(buffer_edit(s1, [i \in 1..Len(old_selections) |->
                             [start |-> old_selections[i].start,
                              end |-> old_selections[i].end]], text), LAMBDA s2 :
    Then(update_selections(s2, [i \in 1..Len(new_selections) |->
            [new_selections[i] EXCEPT !.start = summary_after(s2.cells, @),
                                      !.end = summary_after(s2.cells, @)]],
                           <<"Fit">>), LAMBDA s3 :
        end_transaction_at(s3))))))

\* Text of the offset range [start, end).
text_for_range(text, start, end) == SubSeq(text, start + 1, end)

\* The per-selection loop of Editor::copy: the clipboard text and the
\* metadata records of the selections from index i on.
RECURSIVE copy_loop(_, _, _)
copy_loop(text, sels, i) ==
    IF i > Len(sels) THEN [text |-> <<>>, metadata |-> <<>>]
    ELSE LET is_entire_line == sels[i].start = sels[i].end
             start == IF is_entire_line THEN line_start(text, sels[i].start)
                      ELSE sels[i].start
             end == IF is_entire_line
                    THEN row_start(text, row_of(text, sels[i].start) + 1)
                    ELSE sels[i].end
             chunk == text_for_range(text, start, end)
             rest == copy_loop(text, sels, i + 1)
         IN [text |-> chunk \o rest.text,
             metadata |-> <<[len |-> Len(chunk), is_entire_line |-> is_entire_line]>>
                              \o rest.metadata]

\* Editor::copy
copy(s) ==
    LET item == copy_loop(buffer_text(s.cells), local_selections(s), 1)
    IN [s EXCEPT !.clipboard = <<[text |-> item.text, metadata |-> <<item.metadata>>]>>]

\* The per-selection loop of Editor::paste: every iteration edits the buffer
\* on its own, outside any editor transaction.
RECURSIVE paste_loop(_, _, _, _, _, _, _, _)
paste_loop(s, sels, i, metadata, clipboard_text, all_entire, delta, start_offset) ==
    IF i > Len(sels) THEN [s |-> s, sels |-> sels]
    ELSE LET has == i <= Len(metadata)
             end_offset == IF has THEN start_offset + metadata[i].len ELSE start_offset
             to_insert == IF has THEN text_for_range(clipboard_text, start_offset, end_offset)
                          ELSE clipboard_text
             entire_line == IF has THEN metadata[i].is_entire_line ELSE all_entire
             sel_start == sels[i].start + delta
             sel_end == sels[i].end + delta
             text == buffer_text(s.cells)
             range == IF sel_start = sel_end /\ entire_line
                      THEN [start |-> line_start(text, sel_start),
                            end |-> line_start(text, sel_start)]
                      ELSE [start |-> sel_start, end |-> sel_end]
             s2 == buffer_edit(s, <<range>>, to_insert)
             moved == [sels[i] EXCEPT !.start = sel_start + Len(to_insert),
                                      !.end = sel_start + Len(to_insert)]
         IN paste_loop(s2, [sels EXCEPT ![i] = moved], i + 1, metadata, clipboard_text,
                       all_entire,
                       delta + Len(to_insert) - (range.end - range.start),
                       end_offset)

\* Editor::paste
paste(s) ==
    IF s.clipboard = <<>> THEN s
    ELSE LET item == s.clipboard[1]
         IN IF item.metadata # <<>>
            THEN LET sels == local_selections(s)
                     recorded == item.metadata[1]
                     all_entire == \A k \in 1..Len(recorded) : recorded[k].is_entire_line
                     metadata == IF Len(recorded) # Len(sels) THEN <<>> ELSE recorded
                     r == paste_loop(s, sels, 1, metadata, item.text, all_entire, 0, 0)
                 IN update_selections(r.s, r.sels, <<"Fit">>)
            ELSE insert(s, item.text)

\* --------------------------------------------------- syntax-node selection
\* Characters that are not part of a word.
NonWordChars == {" ", "\n", "(", ")", "{", "}", ",", "."}

\* The ranges of the syntax tree of a text: the document, its non-empty
\* lines, and the words of a line.
syntax_nodes(text) ==
    LET n == Len(text)
        all == {r \in [start : 0..n, end : 0..n] : r.start < r.end}
        is_line(r) == /\ \A i \in (r.start + 1)..r.end : text[i] # "\n"
                      /\ (r.start = 0 \/ text[r.start] = "\n")
                      /\ (r.end = n \/ text[r.end + 1] = "\n")
        is_word(r) == /\ \A i \in (r.start + 1)..r.end : text[i] \notin NonWordChars
                      /\ (r.start = 0 \/ text[r.start] \in NonWordChars)
                      /\ (r.end = n \/ text[r.end + 1] \in NonWordChars)
    IN {[start |-> 0, end |-> n]} \cup {r \in all : is_line(r) \/ is_word(r)}

\* MultiBufferSnapshot::range_for_syntax_ancestor: the smallest node that
\* contains the range and is not the range itself.
range_for_syntax_ancestor(text, range) ==
    LET cands == {nd \in syntax_nodes(text) :
                     /\ nd.start <= range.start /\ range.end <= nd.end
                     /\ ~(nd.start = range.start /\ nd.end = range.end)}
    IN IF cands = {} THEN <<>>
       ELSE <<CHOOSE nd \in cands :
                 \A m \in cands : nd.end - nd.start <= m.end - m.start>>

\* DisplaySnapshot::intersects_fold
intersects_fold(s, offset) ==
    \E f \in s.folds : /\ summary_after(s.cells, f.start) <= offset
                       /\ offset < summary_before(s.cells, f.end)

\* The loop of Editor::select_larger_syntax_node for one selection.
RECURSIVE larger_range(_, _)
larger_range(s, range) ==
    LET containing == range_for_syntax_ancestor(buffer_text(s.cells), range)
    IN IF containing = <<>> THEN range
       ELSE IF /\ ~intersects_fold(s, containing[1].start)
               /\ ~intersects_fold(s, containing[1].end)
            THEN containing[1]
            ELSE larger_range(s, containing[1])

\* sort_unstable_by_key(|s| s.start) on a short slice (an insertion sort).
RECURSIVE sort_by_start(_)
sort_by_start(sels) ==
    IF Len(sels) <= 1 THEN sels
    ELSE LET n == Len(sels)
             front == sort_by_start(SubSeq(sels, 1, n - 1))
             x == sels[n]
             k == Cardinality({i \in 1..(n - 1) : front[i].start <= x.start})
         IN SubSeq(front, 1, k) \o <<x>> \o SubSeq(front, k + 1, n - 1)

\* select_larger_syntax_node pushing the old selections whether or not a
\* selection grew.
select_larger_syntax_node_always_push(s) ==
    LET old_selections == local_selections(s)
        new_selections == [i \in 1..Len(old_selections) |->
            LET new_range == larger_range(s, [start |-> old_selections[i].start,
                                              end |-> old_selections[i].end])
            IN [id |-> old_selections[i].id, start |-> new_range.start,
                end |-> new_range.end, reversed |-> old_selections[i].reversed,
                goal |-> NoGoal]]
    IN [update_selections(s, sort_by_start(new_selections), <<"Fit">>)
          EXCEPT !.select_larger_syntax_node_stack =
                    Append(s.select_larger_syntax_node_stack, old_selections)]

\* Editor::select_larger_syntax_node
select_larger_syntax_node(s) ==
    LET old_selections == local_selections(s)
        stack == s.select_larger_syntax_node_stack
        new_selections == [i \in 1..Len(old_selections) |->
            LET new_range == larger_range(s, [start |-> old_selections[i].start,
                                              end |-> old_selections[i].end])
            IN [id |-> old_selections[i].id, start |-> new_range.start,
                end |-> new_range.end, reversed |-> old_selections[i].reversed,
                goal |-> NoGoal]]
        selected_larger_node ==
            \E i \in 1..Len(old_selections) :
                \/ new_selections[i].start # old_selections[i].start
                \/ new_selections[i].end # old_selections[i].end
    IN IF selected_larger_node
       THEN [update_selections(s, sort_by_start(new_selections), <<"Fit">>)
                EXCEPT !.select_larger_syntax_node_stack = Append(stack, old_selections)]
       ELSE s

\* select_smaller_syntax_node popping the stack without installing the entry.
select_smaller_syntax_node_pop_only(s) ==
    LET stack == s.select_larger_syntax_node_stack
    IN IF stack # <<>>
       THEN [s EXCEPT !.select_larger_syntax_node_stack = SubSeq(stack, 1, Len(stack) - 1)]
       ELSE s

\* Editor::select_smaller_syntax_node
select_smaller_syntax_node(s) ==
    LET stack == s.select_larger_syntax_node_stack
    IN IF stack # <<>>
       THEN [update_selections(s, stack[Len(stack)], <<"Fit">>)
                EXCEPT !.select_larger_syntax_node_stack = SubSeq(stack, 1, Len(stack) - 1)]
       ELSE s


\* ------------------------------------------------------------------ inputs
\* The text the buffer is created with.
InitText == <<"1", "2", "3", "4">>

\* The texts typed or inserted.
InsertTexts == {<<"c", "d">>, <<>>}

\* The offsets callers pass to select_ranges.
SelectPoints == {1, 3}

\* The offset ranges a caller can name in a text of the given length.
RangesOf(len) == [start : SelectPoints \cap 0..len, end : SelectPoints \cap 0..len]

\* The offsets of ranges passed in any order.
AnyPoints == {1, 2, 3}

\* The ranges, forward and reversed, passed in any order.
AllRangesOf(len) == [start : AnyPoints \cap 0..len, end : AnyPoints \cap 0..len]

\* Lists of n ranges.
RangeLists(len, n) == UNION {[1..k -> RangesOf(len)] : k \in 1..n}

\* A list of ranges in ascending order of their lower ends.
Ascending(ranges) ==
    \A i \in 1..(Len(ranges) - 1) :
        Min(ranges[i].start, ranges[i].end) <= Min(ranges[i + 1].start, ranges[i + 1].end)

Op(name, id, input) == [name |-> name, id |-> id, input |-> input]

\* ------------------------------------------------------------------- init
\* Editor::new over a buffer holding text.
InitWith(text, fold_set) ==
    /\ cells = [i \in 1..Len(text) |-> [id |-> i, ch |-> text[i], vis |-> TRUE]]
    /\ undo_stack = <<>>
    /\ redo_stack = <<>>
    /\ transaction_depth = 0
    /\ next_tx_id = 1
    /\ contiguous = FALSE
    /\ idle = FALSE
    /\ selections = <<[id |-> 0, start |-> 0, end |-> 0, reversed |-> FALSE, goal |-> NoGoal]>>
    /\ pending_selection = <<>>
    /\ next_selection_id = 1
    /\ selection_history = <<>>
    /\ select_larger_syntax_node_stack = <<>>
    /\ add_selections_state = <<>>
    /\ select_next_state = <<>>
    /\ autoclose_stack = <<>>
    /\ autoscroll_request = <<>>
    /\ clipboard = <<>>
    /\ folds = fold_set
    /\ columnar_selection_tail = <<>>
    /\ active_diagnostics = <<>>
    /\ scroll_position = 0
    /\ focused = FALSE
    /\ show_local_cursors = FALSE
    /\ blink_epoch = 0
    /\ blinking_paused = FALSE
    /\ blink_tasks = {}
    /\ panicked = FALSE
    /\ tx_log = <<>>
    /\ last_op = Op("new", <<>>, <<>>)

Init == InitWith(InitText, {})

\* ---------------------------------------------------------------- actions
\* select_ranges called with ranges in ascending order.
SelectRanges ==
    /\ ~panicked
    /\ \E ranges \in RangeLists(buffer_len(cells), MaxRanges) :
          /\ Ascending(ranges)
          /\ next_selection_id + Len(ranges) <= MaxSelId + 1
          /\ Commit(select_ranges(State, ranges, <<>>), Op("select_ranges", <<>>, <<>>))

\* select_ranges called with ranges in any order.
SelectRangesAnyOrder ==
    /\ ~panicked
    /\ \E ranges \in UNION {[1..k -> AllRangesOf(buffer_len(cells))] : k \in 1..MaxAnyRanges} :
          /\ next_selection_id + Len(ranges) <= MaxAnyId + 1
          /\ Commit(select_ranges(State, ranges, <<>>), Op("select_ranges", <<>>, ranges))

\* Editor::insert.
Insert ==
    /\ ~panicked
    /\ next_tx_id <= MaxTx
    /\ \E text \in InsertTexts :
          Commit(insert(State, text), Op("insert", <<>>, text))

\* start_transaction_at immediately followed by end_transaction_at.
EmptyTransaction ==
    /\ ~panicked
    /\ next_tx_id <= MaxTx
    /\ Commit(end_transaction_at(start_transaction_at(State)),
              Op("empty_transaction", <<>>, <<>>))

\* Editor::undo / Editor::redo; the buffer refuses them inside a transaction.
Undo ==
    /\ ~panicked
    /\ transaction_depth = 0
    /\ Commit(undo(State), Op("undo", buffer_undo(State).id, <<>>))

Redo ==
    /\ ~panicked
    /\ transaction_depth = 0
    /\ Commit(redo(State), Op("redo", buffer_redo(State).id, <<>>))

\* More than the group interval passes without an edit.
Tick ==
    /\ ~panicked
    /\ ~idle
    /\ Commit([State EXCEPT !.idle = TRUE], Op("tick", <<>>, <<>>))

NextUndo ==
    \/ SelectRanges
    \/ Insert
    \/ EmptyTransaction
    \/ Undo
    \/ Redo
    \/ Tick

Spec == Init /\ [][NextUndo]_vars

\* Callers that hand select_ranges their ranges in whatever order they have.
NextNorm == SelectRangesAnyOrder

SpecNorm == Init /\ [][NextNorm]_vars

\* Editor::copy.
Copy ==
    /\ ~panicked
    /\ Commit(copy(State), Op("copy", <<>>, <<>>))

\* Editor::paste; every selection costs the buffer one transaction id.
Paste ==
    /\ ~panicked
    /\ clipboard # <<>>
    /\ next_tx_id + Len(selections) - 1 <= MaxTx
    /\ Commit(paste(State), Op("paste", <<>>, <<>>))

NextPaste ==
    \/ SelectRanges
    \/ Copy
    \/ Paste
    \/ Undo
    \/ Redo
    \/ Tick

SpecPaste == Init /\ [][NextPaste]_vars

\* Editor::select_larger_syntax_node / Editor::select_smaller_syntax_node.
SelectLarger ==
    /\ ~panicked
    /\ Commit(select_larger_syntax_node(State), Op("select_larger", <<>>, <<>>))

SelectSmaller ==
    /\ ~panicked
    /\ Commit(select_smaller_syntax_node(State), Op("select_smaller", <<>>, <<>>))

\* A text of two lines, the first of two words.
SyntaxText == <<"a", "b", " ", "c", "\n", "d">>

\* The display map folds nothing or the word "c".
SyntaxFolds == {{}, {[start |-> 4, end |-> 4]}}

InitSyntax == \E fold_set \in SyntaxFolds : InitWith(SyntaxText, fold_set)

NextSyntax ==
    \/ SelectRanges
    \/ SelectLarger
    \/ SelectSmaller

SpecSyntax == InitSyntax /\ [][NextSyntax]_vars

\* ---------------------------------------------------------- normalization
\* The offsets of the committed selections in the current snapshot.
Resolved == resolve_selections(cells, selections)

\* C1: after every operation the selections are sorted by position and no
\* two of them overlap: for i < j, selections[i].end <= selections[j].start.
SelectionsSortedDisjoint ==
    \A i \in 1..Len(Resolved) : \A j \in 1..Len(Resolved) :
        i < j => Resolved[i].end <= Resolved[j].start

\* The selections select_ranges builds from the ranges of its last call,
\* before it normalizes them.
InputSelections ==
    LET ranges == last_op.input
        first_id == next_selection_id - Len(ranges)
    IN [i \in 1..Len(ranges) |->
           [id |-> first_id + i - 1,
            start |-> Min(ranges[i].start, ranges[i].end),
            end |-> Max(ranges[i].start, ranges[i].end),
            reversed |-> ranges[i].start > ranges[i].end]]

\* First index of the run that holds index j, the runs starting at 1 and at
\* every index of cuts.
RunFirst(cuts, j) == CHOOSE c \in cuts \cup {1} : c <= j /\ \A d \in cuts \cup {1} : d <= j => d <= c

\* Largest end and smallest start among in[a..b].
HullEnd(in, a, b) == CHOOSE e \in {in[k].end : k \in a..b} : \A k \in a..b : in[k].end <= e
HullStart(in, a, b) == CHOOSE e \in {in[k].start : k \in a..b} : \A k \in a..b : e <= in[k].start

\* out is in with every maximal run of neighbours, each starting at or before
\* the largest end of the run so far, replaced by one selection.
IsMergeOfRuns(in, out) ==
    \E cuts \in SUBSET (2..Len(in)) :
        /\ \A j \in 2..Len(in) :
               j \in cuts <=> HullEnd(in, RunFirst(cuts, j - 1), j - 1) < in[j].start
        /\ Len(out) = Cardinality(cuts) + 1
        /\ \A j \in cuts \cup {1} :
               LET k == Cardinality({c \in cuts \cup {1} : c <= j})
                   last == CHOOSE b \in j..Len(in) :
                               /\ RunFirst(cuts, b) = j
                               /\ (b = Len(in) \/ (b + 1) \in cuts)
               IN /\ out[k].id = in[j].id
                  /\ out[k].reversed = in[j].reversed
                  /\ out[k].start = HullStart(in, j, last)
                  /\ out[k].end = HullEnd(in, j, last)

\* C8: normalization merges every pair of neighbouring selections with
\* selections[i-1].end >= selections[i].start into one selection that spans
\* the minimum start and the maximum end and keeps the earlier one's id.
NormalizationMergesNeighbours ==
    last_op.name = "select_ranges" /\ last_op.input # <<>>
        => IsMergeOfRuns(InputSelections, Resolved)

\* Three ranges, the second touching the first and the third overlapping
\* their union, became one selection with the id of the first.
NormalizationMergesNeighboursWitness ==
    /\ last_op.name = "select_ranges"
    /\ Len(last_op.input) = 3
    /\ last_op.input[1].end = last_op.input[2].start
    /\ last_op.input[1].start < last_op.input[1].end
    /\ last_op.input[3].start < last_op.input[2].start
    /\ last_op.input[3].end > last_op.input[2].end
    /\ Len(Resolved) = 1
    /\ Resolved[1].id = next_selection_id - 3

\* C9: normalization is idempotent: normalizing the selections that a
\* normalization produced changes nothing.
NormalizationIdempotent ==
    LET again == update_selections(State, local_selections(State), <<>>)
    IN resolve_selections(again.cells, again.selections) = Resolved

\* -------------------------------------------------------------- undo, redo
\* The transaction on top of a history stack.
Top(stack) == stack[Len(stack)]

\* C2: undo of an edit made through the editor restores the text of before
\* the transaction and installs exactly the selections recorded when the
\* transaction started.
UndoRestoresSnapshot ==
    /\ last_op.name = "undo"
    /\ last_op.id # <<>>
    /\ last_op.id[1] \in DOMAIN selection_history
    => LET id == last_op.id[1]
       IN /\ selections = selection_history[id].before
          /\ buffer_text(cells) = tx_log[id].text0
          /\ Resolved = tx_log[id].sels0

\* A range was replaced by typed text and the edit undone: the text is the
\* initial one again and the selection is the range, not the caret.
UndoRestoresSnapshotWitness ==
    /\ last_op.name = "undo"
    /\ last_op.id # <<>>
    /\ Top(redo_stack).ins # {}
    /\ Top(redo_stack).del # {}
    /\ buffer_text(cells) = InitText
    /\ Len(Resolved) = 1
    /\ Resolved[1].start = 1
    /\ Resolved[1].end = 3

\* The text and selections of s are those recorded at the start of the
\* editor transaction id.
AtStartOf(s, id) ==
    /\ s.selections = selection_history[id].before
    /\ buffer_text(s.cells) = tx_log[id].text0
    /\ resolve_selections(s.cells, s.selections) = tx_log[id].sels0

\* The text and selections of s are those recorded at the end of the editor
\* transaction id.
AtEndOf(s, id) ==
    /\ selection_history[id].after # <<>>
    /\ s.selections = selection_history[id].after[1]
    /\ buffer_text(s.cells) = tx_log[id].text1[1]
    /\ resolve_selections(s.cells, s.selections) = tx_log[id].sels1[1]

\* C3: for a transaction that was not grouped, undo, redo, undo restores the
\* original text and selections, and the redo in between restores the text
\* and the exact selections recorded when the transaction ended: a redo
\* after the undo leads to the end of the transaction, and an undo after
\* that redo back to its start.
UndoRedoUndoRoundTrip ==
    /\ /\ last_op.name = "undo"
       /\ last_op.id # <<>>
       /\ Top(redo_stack).members = <<last_op.id[1]>>
       => AtEndOf(redo(State), last_op.id[1])
    /\ /\ last_op.name = "redo"
       /\ last_op.id # <<>>
       /\ Top(undo_stack).members = <<last_op.id[1]>>
       => /\ AtEndOf(State, last_op.id[1])
          /\ AtStartOf(undo(State), last_op.id[1])

\* A redo brought back typed text and the caret behind it.
UndoRedoUndoRoundTripWitness ==
    /\ last_op.name = "redo"
    /\ last_op.id # <<>>
    /\ Top(undo_stack).members = <<last_op.id[1]>>
    /\ Top(undo_stack).ins # {}
    /\ selection_history[last_op.id[1]].after = <<selections>>
    /\ selection_history[last_op.id[1]].before # selections
    /\ buffer_text(cells) # InitText

\* C4: when several editor transactions were grouped, one undo reverts all
\* of them and installs the selections recorded before the first, one redo
\* installs the selections recorded after the last.
GroupedUndoRedo ==
    /\ /\ last_op.name = "undo"
       /\ last_op.id # <<>>
       /\ Len(Top(redo_stack).members) >= 2
       => LET first == Top(redo_stack).members[1]
          IN /\ last_op.id[1] = first
             /\ selections = selection_history[first].before
             /\ buffer_text(cells) = tx_log[first].text0
             /\ Resolved = tx_log[first].sels0
    /\ /\ last_op.name = "redo"
       /\ last_op.id # <<>>
       /\ Len(Top(undo_stack).members) >= 2
       => LET last == Top(undo_stack).members[Len(Top(undo_stack).members)]
          IN /\ tx_log[last].anchors1 # <<>>
             /\ selections = tx_log[last].anchors1[1]
             /\ buffer_text(cells) = tx_log[last].text1[1]
             /\ Resolved = tx_log[last].sels1[1]

\* Two inserts were grouped and redone by one redo; the selections differ
\* from those recorded at the end of the first insert.
GroupedUndoRedoWitness ==
    /\ last_op.name = "redo"
    /\ last_op.id # <<>>
    /\ Len(Top(undo_stack).members) = 2
    /\ tx_log[Top(undo_stack).members[1]].anchors1 # <<selections>>
    /\ tx_log[Top(undo_stack).members[1]].text1 # <<buffer_text(cells)>>

\* A step of start_transaction_at immediately followed by
\* end_transaction_at.
EmptyTransactionStep == last_op'.name = "empty_transaction"

\* C6, as stated: a transaction without an edit opens no transaction id, no
\* selection snapshot is recorded for it, undo and redo ignore it.
EmptyTransactionOpensNoId ==
    [][EmptyTransactionStep =>
          /\ selection_history' = selection_history
          /\ undo_stack' = undo_stack
          /\ redo_stack' = redo_stack]_vars

\* C6, as the code has it: the snapshot taken at the start stays recorded,
\* without an after-snapshot, under an id that no transaction of the
\* history carries; text, selections and history stacks are untouched, and
\* the next undo or redo does what it would have done before.
EmptyTransactionIgnored ==
    [][EmptyTransactionStep =>
          /\ selection_history' = Put(selection_history, next_tx_id,
                                      [before |-> selections, after |-> <<>>])
          /\ \A i \in 1..Len(undo_stack') : undo_stack'[i].id # next_tx_id
          /\ \A i \in 1..Len(redo_stack') : redo_stack'[i].id # next_tx_id
          /\ undo_stack' = undo_stack
          /\ redo_stack' = redo_stack
          /\ cells' = cells
          /\ selections' = selections
          /\ undo(State').cells = undo(State).cells
          /\ undo(State').selections = undo(State).selections
          /\ redo(State').cells = redo(State).cells
          /\ redo(State').selections = redo(State).selections]_vars

\* A transaction without an edit ran after an edit that can be undone.
EmptyTransactionIgnoredWitness ==
    /\ last_op.name = "empty_transaction"
    /\ undo_stack # <<>>
    /\ (next_tx_id - 1) \in DOMAIN selection_history
    /\ selection_history[next_tx_id - 1].after = <<>>

\* ------------------------------------------------------------------ insert
\* text with every range replaced by new_text, the ranges ascending.
RECURSIVE SpliceAll(_, _, _)
SpliceAll(text, ranges, new_text) ==
    IF ranges = <<>> THEN text
    ELSE LET r == ranges[Len(ranges)]
         IN SpliceAll(SubSeq(text, 1, r.start) \o new_text \o SubSeq(text, r.end + 1, Len(text)),
                      SubSeq(ranges, 1, Len(ranges) - 1), new_text)

\* Number of characters the selections before the i-th cover.
RECURSIVE CoveredBefore(_, _)
CoveredBefore(sels, i) ==
    IF i <= 1 THEN 0
    ELSE CoveredBefore(sels, i - 1) + sels[i - 1].end - sels[i - 1].start

InsertStep ==
    last_op'.name = "insert" =>
        LET old == local_selections(State)
            text == last_op'.input
            new == resolve_selections(cells', selections')
        IN /\ buffer_text(cells') = SpliceAll(buffer_text(cells), old, text)
           /\ Len(new) = Len(old)
           /\ \A i \in 1..Len(old) :
                 /\ new[i].id = old[i].id
                 /\ new[i].start = new[i].end
                 /\ ~new[i].reversed
                 /\ new[i].goal = NoGoal
                 /\ new[i].end = old[i].start - CoveredBefore(old, i) + i * Len(text)
                 /\ text_for_range(buffer_text(cells'), new[i].end - Len(text), new[i].end)
                        = text

\* C7: insert(text) replaces the range of every selection by text in one
\* edit and leaves every selection as a caret (empty, not reversed, no goal)
\* right behind its own copy of the text, with the id it had.
InsertLeavesCarets == [][InsertStep]_vars

\* Two carets typed "cd" each.
InsertLeavesCaretsWitness ==
    /\ last_op.name = "insert"
    /\ last_op.input = <<"c", "d">>
    /\ buffer_text(cells) = <<"1", "c", "d", "2", "3", "c", "d", "4">>
    /\ Len(Resolved) = 2
    /\ Resolved[1].end = 3
    /\ Resolved[2].end = 7

\* ------------------------------------------------------------------- paste
\* The editing commands of the model.
EditingCommands == {"insert", "paste"}

\* C5: every editing command is one undoable unit: an undo right after the
\* command restores the text and the selections of before the command.
CommandIsOneUndoableUnit ==
    [][last_op'.name \in EditingCommands =>
          LET u == undo(State')
          IN /\ buffer_text(u.cells) = buffer_text(cells)
             /\ resolve_selections(u.cells, u.selections) = Resolved]_vars

\* ------------------------------------------------------------ syntax nodes
\* n calls of select_smaller_syntax_node.
RECURSIVE shrink(_, _)
shrink(s, n) == IF n = 0 THEN s ELSE shrink(select_smaller_syntax_node(s), n - 1)

\* Shrinking as often as the stack is deep walks back through the entries
\* of the stack, from the top down.
ShrinkWalksStack ==
    LET stack == select_larger_syntax_node_stack
    IN \A k \in 1..Len(stack) :
          LET s == shrink(State, Len(stack) - k + 1)
          IN /\ local_selections(s) = stack[k]
             /\ Len(s.select_larger_syntax_node_stack) = k - 1

\* The selections are those a select_larger_syntax_node makes of the entry
\* on top of the stack.
TopGrowsToCurrent ==
    select_larger_syntax_node_stack # <<>>
    => LET before == shrink(State, 1)
           again == select_larger_syntax_node(before)
       IN /\ again.selections = selections
          /\ again.select_larger_syntax_node_stack = select_larger_syntax_node_stack

\* C10: after n select_larger_syntax_node calls that grew the selections,
\* n select_smaller_syntax_node calls restore, one by one, the selections
\* that were current before the matching select_larger_syntax_node.
SyntaxShrinkRestores == ShrinkWalksStack /\ TopGrowsToCurrent

\* Two carets grew to two words and then to one line, and two calls of
\* select_smaller_syntax_node brought the two carets back.
SyntaxShrinkRestoresWitness ==
    /\ last_op.name = "select_smaller"
    /\ select_larger_syntax_node_stack = <<>>
    /\ Len(Resolved) = 2
    /\ Resolved[1].start = 1 /\ Resolved[1].end = 1
    /\ Resolved[2].start = 3 /\ Resolved[2].end = 3
    /\ autoscroll_request = <<"Fit">>

\* ------------------------------------------------------- bracket autoclose
\* language.brackets() of the buffer's language: the start and end token of
\* every pair, in the order of the language configuration.
Brackets ==
    <<[start |-> <<"{">>, end |-> <<"}">>],
      [start |-> <<"/", "*">>, end |-> <<" ", "*", "/">>]>>

\* MultiBufferSnapshot::contains_str_at
contains_str_at(text, position, needle) ==
    /\ position + Len(needle) <= Len(text)
    /\ SubSeq(text, position + 1, position + Len(needle)) = needle

\* usize::saturating_sub
saturating_sub(a, b) == IF a >= b THEN a - b ELSE 0

\* The test of Editor::autoclose_pairs that the start token of the pair
\* stands in front of a selection.
start_precedes(text, pair, sel) ==
    contains_str_at(text, saturating_sub(sel.start, Len(pair.start)), pair.start)

\* Editor::autoclose_pairs
\* autoclose_pairs recording an entry whatever the length of the end-token.
autoclose_pairs_always_push(s) ==
    LET sels == local_selections(s)
        text == buffer_text(s.cells)
        found == {k \in 1..Len(Brackets) : start_precedes(text, Brackets[k], sels[1])}
    IN IF found = {} THEN s
       ELSE LET pair == Brackets[CHOOSE k \in found : \A j \in found : k <= j]
                should_autoclose ==
                    \A i \in 2..Len(sels) : start_precedes(text, pair, sels[i])
            IN IF ~should_autoclose THEN s
               ELSE LET selection_ranges == [i \in 1..Len(sels) |->
                                                [start |-> sels[i].start, end |-> sels[i].start]]
                        s2 == buffer_edit(s, selection_ranges, pair.end)
                        state == [ranges |-> [i \in 1..Len(sels) |->
                                      [start |-> anchor_before(s2.cells, sels[i].start + i - 1),
                                       end |-> anchor_after(s2.cells, sels[i].start + i - 1)]],
                                  pair |-> pair]
                    IN [s2 EXCEPT !.autoclose_stack = Append(@, state)]

autoclose_pairs(s) ==
    LET sels == local_selections(s)
        text == buffer_text(s.cells)
        found == {k \in 1..Len(Brackets) : start_precedes(text, Brackets[k], sels[1])}
    IN IF found = {} THEN s
       ELSE LET pair == Brackets[CHOOSE k \in found : \A j \in found : k <= j]
                should_autoclose ==
                    \A i \in 2..Len(sels) : start_precedes(text, pair, sels[i])
            IN IF ~should_autoclose THEN s
               ELSE LET selection_ranges == [i \in 1..Len(sels) |->
                                                [start |-> sels[i].start, end |-> sels[i].start]]
                        s2 == buffer_edit(s, selection_ranges, pair.end)
                        state == [ranges |-> [i \in 1..Len(sels) |->
                                      [start |-> anchor_before(s2.cells, sels[i].start + i - 1),
                                       end |-> anchor_after(s2.cells, sels[i].start + i - 1)]],
                                  pair |-> pair]
                    IN IF Len(pair.end) = 1
                       THEN [s2 EXCEPT !.autoclose_stack = Append(@, state)]
                       ELSE s2

\* skip_autoclose_end moving the carets without popping the entry.
skip_autoclose_end_keeping_entry(s, text, debug_assertions) ==
    LET old_selections == local_selections(s)
        stack == s.autoclose_stack
    IN IF stack = <<>> THEN [s |-> s, skipped |-> FALSE]
       ELSE LET autoclose_pair == stack[Len(stack)]
                n == Min(Len(old_selections), Len(autoclose_pair.ranges))
            IN IF text # autoclose_pair.pair.end THEN [s |-> s, skipped |-> FALSE]
               ELSE IF \A i \in 1..n :
                          /\ old_selections[i].start = old_selections[i].end
                          /\ old_selections[i].start
                                = summary_after(s.cells, autoclose_pair.ranges[i].end)
               THEN [s |-> set_selections(s,
                              [i \in 1..Len(old_selections) |->
                                  [id |-> old_selections[i].id,
                                   start |-> anchor_before(s.cells, old_selections[i].start + 1),
                                   end |-> anchor_before(s.cells, old_selections[i].start + 1),
                                   reversed |-> FALSE, goal |-> NoGoal]]),
                     skipped |-> TRUE]
               ELSE [s |-> s, skipped |-> FALSE]

\* Editor::skip_autoclose_end; debug_assertions says whether the build keeps
\* the debug_assert_eq on the number of ranges.
skip_autoclose_end(s, text, debug_assertions) ==
    LET old_selections == local_selections(s)
        stack == s.autoclose_stack
    IN IF stack = <<>> THEN [s |-> s, skipped |-> FALSE]
       ELSE LET autoclose_pair == stack[Len(stack)]
                n == Min(Len(old_selections), Len(autoclose_pair.ranges))
            IN IF text # autoclose_pair.pair.end THEN [s |-> s, skipped |-> FALSE]
               ELSE IF debug_assertions /\ Len(old_selections) # Len(autoclose_pair.ranges)
               THEN [s |-> [s EXCEPT !.panicked = TRUE], skipped |-> TRUE]
               ELSE IF \A i \in 1..n :
                          /\ old_selections[i].start = old_selections[i].end
                          /\ old_selections[i].start
                                = summary_after(s.cells, autoclose_pair.ranges[i].end)
               THEN LET new_selections == [i \in 1..Len(old_selections) |->
                            [id |-> old_selections[i].id,
                             start |-> old_selections[i].start + 1,
                             end |-> old_selections[i].start + 1,
                             reversed |-> FALSE, goal |-> NoGoal]]
                        popped == [s EXCEPT !.autoclose_stack = SubSeq(stack, 1, Len(stack) - 1)]
                    IN [s |-> update_selections(popped, new_selections, <<"Fit">>),
                        skipped |-> TRUE]
               ELSE [s |-> s, skipped |-> FALSE]

\* Editor::handle_input
handle_input(s, text, debug_assertions) ==
    LET r == skip_autoclose_end(s, text, debug_assertions)
    IN IF r.skipped THEN r.s
       ELSE end_transaction_at(autoclose_pairs(insert(start_transaction_at(s), text)))

\* The buffer of the autoclose scenarios: a line with a slash, an empty line.
AutocloseText == <<"/", "\n">>

\* The texts typed: the tokens of the bracket pairs, whole or in parts.
TypedTexts == {<<"{">>, <<"}">>, <<"/">>, <<"*">>, <<" ", "*", "/">>}

\* The offsets carets are put at.
CaretPoints == {0, 1, 2}

\* Lists of up to n carets at ascending offsets of a text of the given length.
CaretLists(len, n) ==
    {ranges \in UNION {[1..k -> [start : CaretPoints \cap 0..len, end : CaretPoints \cap 0..len]]
                          : k \in 1..n} :
        /\ \A i \in 1..Len(ranges) : ranges[i].start = ranges[i].end
        /\ \A i \in 1..(Len(ranges) - 1) : ranges[i].start < ranges[i + 1].start}

\* select_ranges putting carets.
SelectCarets ==
    /\ ~panicked
    /\ \E ranges \in CaretLists(buffer_len(cells), MaxRanges) :
          /\ next_selection_id + Len(ranges) <= MaxSelId + 1
          /\ Commit(select_ranges(State, ranges, <<>>), Op("select_ranges", <<>>, ranges))

\* Editor::handle_input in a build with or without debug assertions.
HandleInput ==
    /\ ~panicked
    /\ \E text \in TypedTexts, debug_assertions \in BOOLEAN :
          LET skipped == skip_autoclose_end(State, text, debug_assertions).skipped
          IN /\ skipped \/ next_tx_id <= MaxTx
             /\ Commit(handle_input(State, text, debug_assertions),
                       Op(IF skipped THEN "handle_input_skip" ELSE "handle_input", <<>>, text))

InitAutoclose == InitWith(AutocloseText, {})

NextAutoclose ==
    \/ SelectCarets
    \/ HandleInput

SpecAutoclose == InitAutoclose /\ [][NextAutoclose]_vars

\* ------------------------------------------------------------- delete_line
\* DisplaySnapshot::line_len of a row of an unfolded, unwrapped text.
line_len(text, row) ==
    (IF row < max_row(text) THEN row_start(text, row + 1) - 1 ELSE Len(text))
        - row_start(text, row)

\* SelectionExt::spanned_rows(false, map).buffer_rows, the end exclusive.
spanned_rows(text, sel) ==
    LET start_row == row_of(text, sel.start)
        end_row == row_of(text, sel.end)
        display_end_row ==
            IF /\ end_row # max_row(text)
               /\ start_row # end_row
               /\ column_of(text, sel.end) = 0
            THEN end_row - 1 ELSE end_row
    IN [start |-> start_row, end |-> display_end_row + 1]

\* The inner loop taking only selections whose rows overlap the range.
RECURSIVE accumulate_rows_overlapping(_, _, _, _)
accumulate_rows_overlapping(text, sels, j, rows) ==
    IF j > Len(sels) THEN [rows |-> rows, next |-> j]
    ELSE LET next_rows == spanned_rows(text, sels[j])
         IN IF next_rows.start < rows.end
            THEN accumulate_rows_overlapping(text, sels, j + 1,
                                             [rows EXCEPT !.end = next_rows.end])
            ELSE [rows |-> rows, next |-> j]

\* The inner loop of delete_line: the row range grown over the selections
\* from index j on whose rows start at or before its end, and the index of
\* the first selection left.
RECURSIVE accumulate_rows(_, _, _, _)
accumulate_rows(text, sels, j, rows) ==
    IF j > Len(sels) THEN [rows |-> rows, next |-> j]
    ELSE LET next_rows == spanned_rows(text, sels[j])
         IN IF next_rows.start <= rows.end
            THEN accumulate_rows(text, sels, j + 1, [rows EXCEPT !.end = next_rows.end])
            ELSE [rows |-> rows, next |-> j]

\* The outer loop of delete_line from selection i on: per block of rows the
\* id of its first selection, the cursor point and the range to delete.
RECURSIVE delete_line_loop(_, _, _, _)
delete_line_loop(text, sels, i, row_delta) ==
    IF i > Len(sels) THEN <<>>
    ELSE LET selection == sels[i]
             acc == accumulate_rows(text, sels, i + 1, spanned_rows(text, selection))
             rows == acc.rows
             goal_display_column == column_of(text, head(selection))
             line_after == max_row(text) >= rows.end
             edit_start == IF line_after THEN row_start(text, rows.start)
                           ELSE saturating_sub(row_start(text, rows.start), 1)
             edit_end == IF line_after THEN row_start(text, rows.end) ELSE Len(text)
             cursor_buffer_row == IF line_after THEN rows.start
                                  ELSE saturating_sub(rows.start, 1)
             cursor_row == cursor_buffer_row - row_delta
             cursor == [row |-> cursor_row,
                        column |-> Min(goal_display_column, line_len(text, cursor_row))]
         IN <<[id |-> selection.id, cursor |-> cursor,
               edit |-> [start |-> edit_start, end |-> edit_end]]>>
              \o delete_line_loop(text, sels, acc.next, row_delta + rows.end - rows.start)

\* sort_unstable_by_key(|(_, point)| point) on a short slice (an insertion sort).
RECURSIVE sort_by_point(_)
sort_by_point(cursors) ==
    IF Len(cursors) <= 1 THEN cursors
    ELSE LET n == Len(cursors)
             front == sort_by_point(SubSeq(cursors, 1, n - 1))
             x == cursors[n]
             k == Cardinality({i \in 1..(n - 1) :
                     \/ front[i].cursor.row < x.cursor.row
                     \/ /\ front[i].cursor.row = x.cursor.row
                        /\ front[i].cursor.column <= x.cursor.column})
         IN SubSeq(front, 1, k) \o <<x>> \o SubSeq(front, k + 1, n - 1)

\* Point::to_offset for a point whose column may lie beyond its line.
point_to_offset(text, point) ==
    row_start(text, point.row) + Min(point.column, line_len(text, point.row))

\* Editor::delete_line. The cursor points are computed in the snapshot taken
\* before the edit and resolved in the buffer after it; clips says whether
\* the buffer clips a column beyond the end of its line (otherwise it panics).
delete_line(s, clips) ==
    LET s1 == start_transaction_at(s)
        text == buffer_text(s.cells)
        blocks == delete_line_loop(text, local_selections(s), 1, 0)
        new_cursors == sort_by_point(blocks)
        edit_ranges == [i \in 1..Len(blocks) |-> blocks[i].edit]
        s2 == buffer_edit(s1, edit_ranges, <<>>)
        new_text == buffer_text(s2.cells)
        beyond == \E i \in 1..Len(new_cursors) :
                     new_cursors[i].cursor.column
                         > line_len(new_text, new_cursors[i].cursor.row)
        new_selections == [i \in 1..Len(new_cursors) |->
            LET offset == point_to_offset(new_text, new_cursors[i].cursor)
            IN [id |-> new_cursors[i].id, start |-> offset, end |-> offset,
                reversed |-> FALSE, goal |-> NoGoal]]
    IN IF beyond /\ ~clips THEN [s2 EXCEPT !.panicked = TRUE]
       ELSE end_transaction_at(update_selections(s2, new_selections, <<"Fit">>))

\* The buffer of the delete_line scenarios: three rows.
DeleteLineText == <<"a", "\n", "b", "\n", "c">>

\* Up to n ascending, disjoint ranges (either direction) over the offsets of
\* a text of the given length.
LineRangeLists(len, n) ==
    {ranges \in UNION {[1..k -> [start : 0..len, end : 0..len]] : k \in 1..n} :
        \A i \in 1..(Len(ranges) - 1) :
            Max(ranges[i].start, ranges[i].end) < Min(ranges[i + 1].start, ranges[i + 1].end)}

\* select_ranges with ranges anywhere in the lines.
SelectLineRanges ==
    /\ ~panicked
    /\ \E ranges \in LineRangeLists(buffer_len(cells), MaxRanges) :
          /\ next_selection_id + Len(ranges) <= MaxSelId + 1
          /\ Commit(select_ranges(State, ranges, <<>>), Op("select_ranges", <<>>, ranges))

\* Editor::delete_line
DeleteLine ==
    /\ ~panicked
    /\ next_tx_id <= MaxTx
    /\ \E clips \in BOOLEAN :
          Commit(delete_line(State, clips), Op("delete_line", <<>>, <<>>))

InitDeleteLine == InitWith(DeleteLineText, {})

NextDeleteLine ==
    \/ SelectLineRanges
    \/ DeleteLine

SpecDeleteLine == InitDeleteLine /\ [][NextDeleteLine]_vars

\* ------------------------------------------------------------- select_next
\* char_kind: 0 newline, 1 punctuation, 2 whitespace, 3 word.
char_kind(ch) ==
    IF ch = "\n" THEN 0
    ELSE IF ch = " " THEN 2
    ELSE IF ch \in NonWordChars THEN 1
    ELSE 3

\* movement::is_inside_word: a word character on either side of the offset.
is_inside_word(text, offset) ==
    /\ offset > 0 /\ offset < Len(text)
    /\ char_kind(text[offset]) = 3
    /\ char_kind(text[offset + 1]) = 3

\* movement::surrounding_word: the run of characters around the offset that
\* have the greater kind of the two characters next to it.
surrounding_word(text, offset) ==
    LET prev == IF offset > 0 THEN char_kind(text[offset]) ELSE -1
        next == IF offset < Len(text) THEN char_kind(text[offset + 1]) ELSE -1
        word_kind == Max(prev, next)
        same(i) == char_kind(text[i]) = word_kind /\ text[i] # "\n"
        starts == {b \in 0..offset : \A i \in (b + 1)..offset : same(i)}
        ends == {e \in offset..Len(text) : \A i \in (offset + 1)..e : same(i)}
    IN [start |-> CHOOSE b \in starts : \A x \in starts : b <= x,
        end |-> CHOOSE e \in ends : \A x \in ends : x <= e]

\* AhoCorasick::stream_find_iter over the bytes from..to of the text: the
\* matches of the query from left to right, none overlapping the one before.
RECURSIVE stream_find_iter(_, _, _, _)
stream_find_iter(text, from, to, query) ==
    LET hits == {q \in from..(to - Len(query)) :
                    SubSeq(text, q + 1, q + Len(query)) = query}
    IN IF hits = {} THEN <<>>
       ELSE LET q == CHOOSE h \in hits : \A x \in hits : h <= x
            IN <<[start |-> q, end |-> q + Len(query)]>>
                 \o stream_find_iter(text, q + Max(Len(query), 1), to, query)

\* The selections with the least and the greatest id.
min_by_id(sels) == sels[CHOOSE i \in 1..Len(sels) : \A j \in 1..Len(sels) : sels[i].id <= sels[j].id]
max_by_id(sels) == sels[CHOOSE i \in 1..Len(sels) : \A j \in 1..Len(sels) : sels[i].id >= sels[j].id]

\* The search of select_next accepting every match, word-bounded or not.
next_selected_range_any_match(text, sels, state) ==
    LET first_selection == min_by_id(sels)
        last_selection == max_by_id(sels)
        query_matches ==
            stream_find_iter(text, last_selection.end, Len(text), state.query)
                \o stream_find_iter(text, 0, first_selection.start, state.query)
    IN IF query_matches = <<>> THEN <<>> ELSE <<query_matches[1]>>

\* The search of select_next: the first match behind the newest selection,
\* then in front of the oldest, that the word-boundedness accepts.
next_selected_range(text, sels, state) ==
    LET first_selection == min_by_id(sels)
        last_selection == max_by_id(sels)
        query_matches ==
            stream_find_iter(text, last_selection.end, Len(text), state.query)
                \o stream_find_iter(text, 0, first_selection.start, state.query)
        accepted == {k \in 1..Len(query_matches) :
                        \/ ~state.wordwise
                        \/ /\ ~is_inside_word(text, query_matches[k].start)
                           /\ ~is_inside_word(text, query_matches[k].end)}
    IN IF accepted = {} THEN <<>>
       ELSE <<query_matches[CHOOSE k \in accepted : \A x \in accepted : k <= x]>>

\* select_next with a search state that gives up without recording it.
select_next_step_never_done(s, replace_newest) ==
    LET selections0 == local_selections(s)
        state == s.select_next_state[1]
        found == next_selected_range(buffer_text(s.cells), selections0, state)
    IN IF state.done \/ found = <<>> THEN s
       ELSE LET newest_id == max_by_id(selections0).id
                retained == IF replace_newest
                            THEN SelectSeq(selections0, LAMBDA x : x.id # newest_id)
                            ELSE selections0
                pushed == Append(retained,
                              [id |-> s.next_selection_id, start |-> found[1].start,
                               end |-> found[1].end, reversed |-> FALSE, goal |-> NoGoal])
                s1 == update_selections([s EXCEPT !.next_selection_id = @ + 1],
                                        sort_by_start(pushed), <<"Newest">>)
            IN [s1 EXCEPT !.select_next_state = <<state>>]

\* Editor::select_next when a search state exists.
select_next_step(s, replace_newest) ==
    LET selections0 == local_selections(s)
        state == s.select_next_state[1]
        found == next_selected_range(buffer_text(s.cells), selections0, state)
    IN IF state.done THEN s
       ELSE IF found = <<>> THEN [s EXCEPT !.select_next_state = <<[state EXCEPT !.done = TRUE]>>]
       ELSE LET newest_id == max_by_id(selections0).id
                retained == IF replace_newest
                            THEN SelectSeq(selections0, LAMBDA x : x.id # newest_id)
                            ELSE selections0
                pushed == Append(retained,
                              [id |-> s.next_selection_id, start |-> found[1].start,
                               end |-> found[1].end, reversed |-> FALSE, goal |-> NoGoal])
                s1 == update_selections([s EXCEPT !.next_selection_id = @ + 1],
                                        sort_by_start(pushed), <<"Newest">>)
            IN [s1 EXCEPT !.select_next_state = <<state>>]

\* Editor::select_next
select_next(s, replace_newest) ==
    LET selections0 == local_selections(s)
        text == buffer_text(s.cells)
    IN IF s.select_next_state # <<>> THEN select_next_step(s, replace_newest)
       ELSE IF Len(selections0) # 1 THEN s
       ELSE LET selection == selections0[1]
            IN IF selection.start = selection.end
               THEN LET word_range == surrounding_word(text, selection.start)
                        word == [selection EXCEPT !.start = word_range.start,
                                                  !.end = word_range.end,
                                                  !.goal = NoGoal,
                                                  !.reversed = FALSE]
                        select_state ==
                            [query |-> text_for_range(text, word.start, word.end),
                             wordwise |-> TRUE, done |-> FALSE]
                        s1 == update_selections(s, <<word>>, <<"Newest">>)
                    IN [s1 EXCEPT !.select_next_state = <<select_state>>]
               ELSE select_next_step(
                        [s EXCEPT !.select_next_state =
                            <<[query |-> text_for_range(text, selection.start, selection.end),
                               wordwise |-> FALSE, done |-> FALSE]>>],
                        replace_newest)

\* The buffer of the select_next scenarios: the word twice on its own, then
\* twice inside a longer word.
SelectNextText == <<"a", "b", " ", "a", "b", " ", "a", "b", "a", "b">>

\* One range, or two carets, over the offsets of a text of the given length.
SearchRangeLists(len) ==
    {<<[start |-> a, end |-> b]>> : a \in 0..len, b \in 0..len}
        \cup {<<[start |-> a, end |-> a], [start |-> b, end |-> b]>> : a \in {1}, b \in {4}}

\* select_ranges before a search.
SelectSearchRanges ==
    /\ ~panicked
    /\ \E ranges \in SearchRangeLists(buffer_len(cells)) :
          /\ next_selection_id + Len(ranges) <= MaxSelId + 1
          /\ Commit(select_ranges(State, ranges, <<>>), Op("select_ranges", <<>>, ranges))

\* Editor::select_next, adding to the selections or replacing the newest.
SelectNext ==
    /\ ~panicked
    /\ next_selection_id <= MaxSelId + 1
    /\ \E replace_newest \in BOOLEAN :
          Commit(select_next(State, replace_newest),
                 Op("select_next", <<>>, <<replace_newest>>))

InitSelectNext == InitWith(SelectNextText, {})

NextSelectNext ==
    \/ SelectSearchRanges
    \/ SelectNext

SpecSelectNext == InitSelectNext /\ [][NextSelectNext]_vars

\* --------------------------------------------------- clipboard over lines
\* The buffer of the clipboard scenarios: a line with its line end and a
\* last line without one.
ClipboardText == <<"a", "b", "\n", "c">>

\* The offsets selections are put at before a copy or a paste.
ClipboardPoints == {1, 3, 4}

\* Selection ids handed out in the clipboard scenarios.
MaxClipSelId == 4

\* Up to n forward ranges, ascending and apart, over the clipboard points.
ClipboardRangeLists(len, n) ==
    {ranges \in UNION {[1..k -> [start : ClipboardPoints \cap 0..len,
                                 end : ClipboardPoints \cap 0..len]] : k \in 1..n} :
        /\ \A i \in 1..Len(ranges) : ranges[i].start <= ranges[i].end
        /\ \A i \in 1..(Len(ranges) - 1) : ranges[i].end < ranges[i + 1].start}

\* select_ranges before a copy or a paste, never twice in a row.
SelectClipboardRanges ==
    /\ ~panicked
    /\ last_op.name # "select_ranges"
    /\ \E ranges \in ClipboardRangeLists(buffer_len(cells), MaxRanges) :
          /\ next_selection_id + Len(ranges) <= MaxClipSelId + 1
          /\ Commit(select_ranges(State, ranges, <<>>), Op("select_ranges", <<>>, ranges))

\* Editor::copy, called while the clipboard is still empty.
CopyOnce ==
    /\ clipboard = <<>>
    /\ Copy

InitClipboard == InitWith(ClipboardText, {})

NextClipboard ==
    \/ SelectClipboardRanges
    \/ CopyOnce
    \/ Paste

SpecClipboard == InitClipboard /\ [][NextClipboard]_vars

\* ------------------------------------------------------- claims on autoclose
IsPrefix(a, b) == Len(a) <= Len(b) /\ a = SubSeq(b, 1, Len(a))

AllCarets(sels) == \A i \in 1..Len(sels) : sels[i].start = sels[i].end

\* The carets of the state are exactly at the ends recorded by the entry.
AtRecordedEnds(c, sels, entry) ==
    /\ Len(sels) = Len(entry.ranges)
    /\ \A i \in 1..Len(sels) :
          /\ sels[i].start = sels[i].end
          /\ sels[i].start = summary_after(c, entry.ranges[i].end)

InputSteps == {"handle_input", "handle_input_skip"}

\* Typing "{" at empty cursors.
AutocloseOpenStep ==
    (/\ last_op'.name \in InputSteps
     /\ last_op'.input = <<"{">>
     /\ AllCarets(local_selections(State))) =>
        LET old == local_selections(State)
            new == resolve_selections(cells', selections')
        IN /\ buffer_text(cells') = SpliceAll(buffer_text(cells), old, <<"{", "}">>)
           /\ Len(new) = Len(old)
           /\ \A i \in 1..Len(old) :
                 /\ new[i].start = new[i].end
                 /\ new[i].start = old[i].start + 2 * (i - 1) + 1

\* Typing "}" with every caret at the end recorded by the top entry.
AutocloseSkipStep ==
    (/\ last_op'.name \in InputSteps
     /\ last_op'.input = <<"}">>
     /\ autoclose_stack # <<>>
     /\ Top(autoclose_stack).pair.end = <<"}">>
     /\ AtRecordedEnds(cells, local_selections(State), Top(autoclose_stack))) =>
        LET old == local_selections(State)
            new == resolve_selections(cells', selections')
        IN /\ buffer_text(cells') = buffer_text(cells)
           /\ undo_stack' = undo_stack
           /\ redo_stack' = redo_stack
           /\ next_tx_id' = next_tx_id
           /\ selection_history' = selection_history
           /\ Len(new) = Len(old)
           /\ \A i \in 1..Len(old) :
                 /\ new[i].id = old[i].id
                 /\ new[i].start = new[i].end
                 /\ new[i].start = old[i].start + 1
           /\ IsPrefix(autoclose_stack', SubSeq(autoclose_stack, 1, Len(autoclose_stack) - 1))

\* C11: with the pair "{" "}", typing "{" at empty cursors inserts "{}" at
\* each of them and leaves each caret between the two characters; typing "}"
\* while every selection is an empty caret at the end recorded by the top
\* entry of the autoclose stack changes no text, opens no transaction, moves
\* every caret one to the right and pops that entry.
AutocloseTypeOverCloser == [][AutocloseOpenStep /\ AutocloseSkipStep]_vars

\* Two carets typed "{" and then typed over both closers.
AutocloseTypeOverCloserWitness ==
    /\ last_op.name = "handle_input_skip"
    /\ last_op.input = <<"}">>
    /\ buffer_text(cells) = <<"{", "}", "/", "{", "}", "\n">>
    /\ Len(Resolved) = 2
    /\ Resolved[1].start = 2 /\ Resolved[1].end = 2
    /\ Resolved[2].start = 5 /\ Resolved[2].end = 5
    /\ autoclose_stack = <<>>

\* C12 as stated: in every state the autoclose stack is empty or its top
\* entry has one range per selection and every selection is a caret exactly
\* at the position the entry recorded.
AutocloseTopMatchesExactly ==
    \/ autoclose_stack = <<>>
    \/ AtRecordedEnds(cells, Resolved, Top(autoclose_stack))

\* C12: in every state the autoclose stack is empty or its top entry has one
\* range per selection and the head of every selection lies inside its
\* range, from the recorded start to the recorded end.
AutocloseTopContainsHeads ==
    \/ autoclose_stack = <<>>
    \/ LET top == Top(autoclose_stack)
       IN /\ Len(Resolved) = Len(top.ranges)
          /\ \A i \in 1..Len(Resolved) :
                /\ summary_before(cells, top.ranges[i].start) <= head(Resolved[i])
                /\ head(Resolved[i]) <= summary_after(cells, top.ranges[i].end)

\* A caret put back in front of typed text, inside the range of an entry
\* that stays on the stack, and not at the recorded end.
AutocloseTopContainsHeadsWitness ==
    /\ last_op.name = "select_ranges"
    /\ autoclose_stack # <<>>
    /\ Len(Resolved) = 1
    /\ head(Resolved[1]) < summary_after(cells, Top(autoclose_stack).ranges[1].end)

\* Length of the end-token a handle_input step inserted behind each typed
\* text, 0 when it inserted none.
InsertedCloserLen ==
    LET old == local_selections(State)
    IN (Len(buffer_text(cells'))
          - Len(SpliceAll(buffer_text(cells), old, last_op'.input))) \div Len(old)

AutoclosePushStep ==
    /\ last_op'.name = "handle_input" =>
          /\ InsertedCloserLen > 1 => IsPrefix(autoclose_stack', autoclose_stack)
          /\ InsertedCloserLen = 1 =>
                /\ autoclose_stack' # <<>>
                /\ Len(Top(autoclose_stack').pair.end) = 1
                /\ IsPrefix(SubSeq(autoclose_stack', 1, Len(autoclose_stack') - 1),
                            autoclose_stack)
          /\ InsertedCloserLen = 0 => IsPrefix(autoclose_stack', autoclose_stack)
    /\ last_op'.name = "handle_input_skip" => Len(last_op'.input) = 1
    /\ (last_op'.name \in InputSteps /\ Len(last_op'.input) > 1) =>
          buffer_text(cells') # buffer_text(cells)

\* C13: a handle_input step pushes an entry on the autoclose stack exactly
\* when the end-token it inserted is a single character; a step that inserts
\* a longer end-token (" */") leaves no new entry, and typing a longer
\* closer always inserts it and never skips.
AutoclosePushesSingleCharEnd == [][AutoclosePushStep]_vars

\* "*" typed behind "/" got " */" behind it with nothing recorded, and " */"
\* typed next was inserted.
AutoclosePushesSingleCharEndWitness ==
    /\ last_op.name = "handle_input"
    /\ last_op.input = <<" ", "*", "/">>
    /\ buffer_text(cells) = <<"/", "*", " ", "*", "/", " ", "*", "/", "\n">>
    /\ autoclose_stack = <<>>

\* C14: a handle_input step inserts an end-token only if the start-token of
\* one pair ends exactly at every caret the step leaves, that is, the text
\* right in front of every caret equals that start-token.
AutocloseStep ==
    (last_op'.name = "handle_input" /\ InsertedCloserLen > 0) =>
        LET new == resolve_selections(cells', selections')
            text == buffer_text(cells')
        IN \E k \in 1..Len(Brackets) :
              /\ Len(Brackets[k].end) = InsertedCloserLen
              /\ \A i \in 1..Len(new) :
                    /\ new[i].start >= Len(Brackets[k].start)
                    /\ text_for_range(text, new[i].start - Len(Brackets[k].start),
                                      new[i].start) = Brackets[k].start

AutocloseOnlyBehindStartToken == [][AutocloseStep]_vars

\* ----------------------------------------------------- claims on delete_line
\* The rows spanned by some selection.
SpannedRowSet(text, sels) ==
    UNION {spanned_rows(text, sels[i]).start..(spanned_rows(text, sels[i]).end - 1)
               : i \in 1..Len(sels)}

\* The first rows of the blocks: the maximal runs of consecutive spanned rows.
BlockStarts(rows) == {r \in rows : (r - 1) \notin rows}

\* The first row behind the block that starts at row r.
BlockEnd(rows, r) ==
    CHOOSE e \in (r + 1)..(r + Cardinality(rows)) :
        /\ e \notin rows
        /\ \A x \in r..(e - 1) : x \in rows

\* The text without the given rows: the characters of the other rows with
\* their line ends, and no line end behind the last row left.
WithoutRows(text, rows) ==
    LET keep == {i \in 1..Len(text) : row_of(text, i - 1) \notin rows}
        kept == [k \in 1..Cardinality(keep) |->
                    text[CHOOSE i \in keep : Cardinality({j \in keep : j <= i}) = k]]
    IN IF max_row(text) \in rows /\ kept # <<>>
       THEN SubSeq(kept, 1, Len(kept) - 1) ELSE kept

\* The row the caret of the block starting at row r is put on: the row that
\* follows the block, or the row before it when no row follows.
CaretRowOf(text, rows, r) ==
    LET before == Cardinality({x \in 0..(r - 1) : x \notin rows})
    IN IF BlockEnd(rows, r) <= max_row(text) THEN before ELSE Max(before - 1, 0)

\* delete_line removes every spanned row once and leaves carets.
DeleteLineRemovesRows ==
    LET old == local_selections(State)
        text == buffer_text(cells)
        new == resolve_selections(cells', selections')
    IN /\ buffer_text(cells') = WithoutRows(text, SpannedRowSet(text, old))
       /\ \A i \in 1..Len(new) :
             /\ new[i].start = new[i].end
             /\ ~new[i].reversed
             /\ \E j \in 1..Len(old) : new[i].id = old[j].id
       /\ \A i \in 1..(Len(new) - 1) : new[i].start < new[i + 1].start
       /\ {row_of(buffer_text(cells'), new[i].start) : i \in 1..Len(new)}
             = {CaretRowOf(text, SpannedRowSet(text, old), r)
                    : r \in BlockStarts(SpannedRowSet(text, old))}

DeleteLineStep == last_op'.name = "delete_line" /\ ~panicked'

NumBlocks ==
    Cardinality(BlockStarts(SpannedRowSet(buffer_text(cells), local_selections(State))))

\* C15 as stated: delete_line removes every spanned row once and leaves
\* exactly one caret per block of touching or overlapping rows.
DeleteLineOneCaretPerBlock ==
    [][DeleteLineStep =>
          /\ DeleteLineRemovesRows
          /\ Len(selections') = NumBlocks]_vars

\* C15: delete_line coalesces selections whose rows touch or overlap into
\* blocks and removes every spanned row exactly once; it computes one caret
\* per block, never one per selection, and two of these carets that land on
\* the same position (the last block, with no row behind it, next to the
\* block before it) are merged into one.
DeleteLineCoalescesRows ==
    [][DeleteLineStep =>
          /\ DeleteLineRemovesRows
          /\ Len(selections') <= NumBlocks
          /\ Len(selections') >= NumBlocks - 1
          /\ Len(selections') < NumBlocks =>
                max_row(buffer_text(cells))
                    \in SpannedRowSet(buffer_text(cells), local_selections(State))]_vars

\* Selections 1 and 2 on the adjacent rows 0 and 1 deleted as one block.
DeleteLineCoalescesRowsWitness ==
    /\ last_op.name = "delete_line"
    /\ ~panicked
    /\ Len(undo_stack) = 1
    /\ next_selection_id = 3
    /\ buffer_text(cells) = <<"c">>
    /\ Len(Resolved) = 1
    /\ Resolved[1].id = 1

\* ----------------------------------------------------- claims on select_next
IsWordChar(ch) == ch \notin NonWordChars

\* start..end is a whole word of the text: word characters only, and no
\* word character next to it on either side.
IsWholeWord(text, start, end) ==
    /\ start < end
    /\ \A i \in (start + 1)..end : IsWordChar(text[i])
    /\ start = 0 \/ ~IsWordChar(text[start])
    /\ end = Len(text) \/ ~IsWordChar(text[end + 1])

SelectNextStep == last_op'.name = "select_next"

\* The first call: a single empty selection with word characters on both
\* sides and no search state.
SelectNextSnapsToWord ==
    (/\ SelectNextStep
     /\ select_next_state = <<>>
     /\ Len(Resolved) = 1
     /\ Resolved[1].start = Resolved[1].end
     /\ Resolved[1].start > 0 /\ Resolved[1].start < buffer_len(cells)
     /\ IsWordChar(buffer_text(cells)[Resolved[1].start])
     /\ IsWordChar(buffer_text(cells)[Resolved[1].start + 1])) =>
        LET new == resolve_selections(cells', selections')
            text == buffer_text(cells)
        IN /\ Len(new) = 1
           /\ new[1].id = Resolved[1].id
           /\ new[1].start <= Resolved[1].start /\ Resolved[1].start <= new[1].end
           /\ IsWholeWord(text, new[1].start, new[1].end)
           /\ select_next_state' = <<[query |-> SubSeq(text, new[1].start + 1, new[1].end),
                                     wordwise |-> TRUE, done |-> FALSE]>>

\* A later call of a word-bounded search: every selection it leaves was
\* there before or is a whole word equal to the query.
SelectNextKeepsWordBounds ==
    (/\ SelectNextStep
     /\ select_next_state # <<>>
     /\ select_next_state[1].wordwise) =>
        LET new == resolve_selections(cells', selections')
            text == buffer_text(cells)
        IN \A i \in 1..Len(new) :
              \/ \E j \in 1..Len(Resolved) :
                    new[i].start = Resolved[j].start /\ new[i].end = Resolved[j].end
              \/ /\ SubSeq(text, new[i].start + 1, new[i].end) = select_next_state[1].query
                 /\ (new[i].start = 0 \/ new[i].start = Len(text)
                       \/ ~(IsWordChar(text[new[i].start]) /\ IsWordChar(text[new[i].start + 1])))
                 /\ (new[i].end = 0 \/ new[i].end = Len(text)
                       \/ ~(IsWordChar(text[new[i].end]) /\ IsWordChar(text[new[i].end + 1])))

\* C16: select_next from a single empty selection inside a word selects
\* exactly that word and marks the search word-bounded; a later step of the
\* search only adds a match of the word neither edge of which lies inside a
\* word, so it never selects "ab" inside "abab".
SelectNextWordBounded == [][SelectNextSnapsToWord /\ SelectNextKeepsWordBounds]_vars

\* The caret in the second "ab" selected it, and the next step took the
\* first "ab" after passing over both halves of "abab".
SelectNextWordBoundedWitness ==
    /\ last_op.name = "select_next"
    /\ select_next_state # <<>>
    /\ select_next_state[1].wordwise
    /\ ~select_next_state[1].done
    /\ Len(Resolved) = 2
    /\ Resolved[1].start = 0 /\ Resolved[1].end = 2
    /\ Resolved[2].start = 3 /\ Resolved[2].end = 5
    /\ Resolved[1].id > Resolved[2].id

Disjoint(r, sel) == r.end <= sel.start \/ sel.end <= r.start

\* C17: the range a select_next step of a running search adds is disjoint
\* from every selection there was before the step.
SelectNextNeverRematches ==
    [][(/\ SelectNextStep
        /\ select_next_state # <<>>
        /\ ~select_next_state[1].done) =>
          LET found == next_selected_range(buffer_text(cells), local_selections(State),
                                           select_next_state[1])
          IN \/ found = <<>>
             \/ \A i \in 1..Len(Resolved) : Disjoint(found[1], Resolved[i])]_vars

\* No occurrence of the query behind the newest or in front of the oldest
\* selection is acceptable.
NoAcceptableMatch ==
    LET text == buffer_text(cells)
        state == select_next_state[1]
        n == Len(state.query)
    IN ~\E q \in 0..(Len(text) - n) :
          /\ q >= max_by_id(Resolved).end \/ q + n <= min_by_id(Resolved).start
          /\ SubSeq(text, q + 1, q + n) = state.query
          /\ \/ ~state.wordwise
             \/ ~is_inside_word(text, q) /\ ~is_inside_word(text, q + n)

EditorUnchanged ==
    /\ cells' = cells
    /\ selections' = selections
    /\ pending_selection' = pending_selection
    /\ next_selection_id' = next_selection_id
    /\ undo_stack' = undo_stack
    /\ next_tx_id' = next_tx_id

SelectNextDoneStep ==
    /\ (/\ SelectNextStep
        /\ select_next_state # <<>>
        /\ ~select_next_state[1].done
        /\ NoAcceptableMatch) =>
          /\ EditorUnchanged
          /\ select_next_state' = <<[select_next_state[1] EXCEPT !.done = TRUE]>>
    /\ (/\ SelectNextStep
        /\ select_next_state # <<>>
        /\ select_next_state[1].done) =>
          /\ EditorUnchanged
          /\ select_next_state' = select_next_state
    /\ last_op'.name = "select_ranges" => select_next_state' = <<>>

\* C18: a select_next step that finds no acceptable match behind the newest
\* and in front of the oldest selection sets the done flag and changes
\* nothing else; while the flag is set select_next changes nothing; and
\* select_ranges, which changes the selections, discards the search state.
SelectNextDone == [][SelectNextDoneStep]_vars

\* The search from the first "ab" took the second and then found nothing
\* more.
SelectNextDoneWitness ==
    /\ last_op.name = "select_next"
    /\ select_next_state # <<>>
    /\ select_next_state[1].done
    /\ select_next_state[1].wordwise
    /\ Len(Resolved) = 2
    /\ Resolved[1].start = 0 /\ Resolved[1].end = 2
    /\ Resolved[2].start = 3 /\ Resolved[2].end = 5
    /\ Resolved[1].id < Resolved[2].id

\* ----------------------------------------------------------- claims on paste
\* The metadata records on the clipboard and whether there is one per
\* selection.
Recorded == clipboard[1].metadata[1]
SlicePerCursor == Len(Recorded) = Len(local_selections(State))

\* Sum of the lengths of the first n records.
RECURSIVE LenBefore(_, _)
LenBefore(records, n) == IF n = 0 THEN 0 ELSE LenBefore(records, n - 1) + records[n].len

\* What the i-th selection is given: its slice of the clipboard text, or the
\* whole text when the counts differ.
SliceOf(i) ==
    IF SlicePerCursor
    THEN SubSeq(clipboard[1].text, LenBefore(Recorded, i - 1) + 1, LenBefore(Recorded, i))
    ELSE clipboard[1].text

\* Whether what the i-th selection is given counts as an entire line.
EntireLineFor(i) ==
    IF SlicePerCursor THEN Recorded[i].is_entire_line
    ELSE \A k \in 1..Len(Recorded) : Recorded[k].is_entire_line

\* An empty cursor given an entire line.
LineWise(i) ==
    /\ local_selections(State)[i].start = local_selections(State)[i].end
    /\ EntireLineFor(i)

\* What paste is to leave after the selections from the i-th on, given the
\* text and the carets the selections before it have left: every slice goes
\* to the range of its selection, or to the start of the line its empty
\* cursor is on, and moves whatever stands behind the place it goes to (a
\* caret at the start of its line stays on that line).
RECURSIVE PasteExpected(_, _, _, _)
PasteExpected(i, text, shift, carets) ==
    LET old == local_selections(State)
    IN IF i > Len(old) THEN [text |-> text, carets |-> carets]
       ELSE LET start == old[i].start + shift
                end == old[i].end + shift
                at == IF LineWise(i) THEN line_start(text, start) ELSE start
                until == IF LineWise(i) THEN at ELSE end
                grow == Len(SliceOf(i)) - (until - at)
                moved == [k \in 1..Len(carets) |->
                             IF carets[k] > at \/ (carets[k] = at /\ LineWise(k))
                             THEN carets[k] + grow ELSE carets[k]]
            IN PasteExpected(i + 1,
                   SubSeq(text, 1, at) \o SliceOf(i) \o SubSeq(text, until + 1, Len(text)),
                   shift + grow,
                   Append(moved, IF LineWise(i) THEN start + grow ELSE at + Len(SliceOf(i))))

Expected == PasteExpected(1, buffer_text(cells), 0, <<>>)

PasteStep == last_op'.name = "paste" /\ clipboard[1].metadata # <<>>

\* C19: paste with one clipboard slice per selection replaces the range of
\* the i-th selection by the i-th slice and leaves a caret right behind the
\* slice; with any other number of slices every selection gets the whole
\* clipboard text in the same way.
PasteSlicePerCursor ==
    [][PasteStep =>
          LET old == local_selections(State)
              new == resolve_selections(cells', selections')
          IN /\ buffer_text(cells') = Expected.text
             /\ Len(new) = Len(old)
             /\ \A i \in 1..Len(old) :
                   ~LineWise(i) =>
                      /\ new[i].start = new[i].end
                      /\ new[i].start = Expected.carets[i]
                      /\ SubSeq(buffer_text(cells'), new[i].start - Len(SliceOf(i)) + 1,
                                new[i].start) = SliceOf(i)]_vars

\* C20: an empty cursor given an entire-line slice gets it at the start of
\* its line and keeps its column on that line; a non-empty selection given
\* such a slice is replaced by it with the caret behind it, wherever earlier
\* insertions of the same paste have moved it.
PasteEntireLine ==
    [][PasteStep =>
          LET old == local_selections(State)
              new == resolve_selections(cells', selections')
          IN /\ buffer_text(cells') = Expected.text
             /\ Len(new) = Len(old)
             /\ \A i \in 1..Len(old) :
                   EntireLineFor(i) =>
                      /\ new[i].start = new[i].end
                      /\ new[i].start = Expected.carets[i]
                      /\ LineWise(i) =>
                            column_of(buffer_text(cells'), new[i].start)
                               = column_of(buffer_text(cells), old[i].start)]_vars

\* ------------------------------------------------------------ cut and copy
\* The selections of Editor::cut after its loop: an empty selection is
\* widened to its line, up to the start of the next row or the end of the text.
cut_selections(text, sels) ==
    [i \in 1..Len(sels) |->
        IF sels[i].start = sels[i].end
        THEN [sels[i] EXCEPT !.start = line_start(text, sels[i].start),
                             !.end = row_start(text, row_of(text, sels[i].end) + 1)]
        ELSE sels[i]]

\* Editor::cut
cut(s) ==
    Then(start_transaction_at(s), LAMBDA s1 :
    Then(local_selections(s1), LAMBDA selections_ :
    Then(copy_loop(buffer_text(s1.cells), selections_, 1), LAMBDA item :
    Then(update_selections(s1, cut_selections(buffer_text(s1.cells), selections_),
                           <<"Fit">>), LAMBDA s2 :
    Then(insert(s2, <<>>), LAMBDA s3 :
    Then(end_transaction_at(s3), LAMBDA s4 :
        [s4 EXCEPT !.clipboard =
            <<[text |-> item.text, metadata |-> <<item.metadata>>]>>]))))))

\* The offsets selections are put at before a cut or a copy.
CutPoints == {0, 1, 3, 4}

\* Up to n forward ranges in ascending order over the cut points; carets may
\* share a line and ranges may touch.
CutRangeLists(len, n) ==
    {ranges \in UNION {[1..k -> [start : CutPoints \cap 0..len,
                                 end : CutPoints \cap 0..len]] : k \in 1..n} :
        /\ \A i \in 1..Len(ranges) : ranges[i].start <= ranges[i].end
        /\ \A i \in 1..(Len(ranges) - 1) : ranges[i].end < ranges[i + 1].start}

\* select_ranges before a cut or a copy, never twice in a row.
SelectCutRanges ==
    /\ ~panicked
    /\ last_op.name # "select_ranges"
    /\ \E ranges \in CutRangeLists(buffer_len(cells), MaxRanges) :
          /\ next_selection_id + Len(ranges) <= MaxClipSelId + 1
          /\ Commit(select_ranges(State, ranges, <<>>), Op("select_ranges", <<>>, ranges))

\* Editor::cut.
Cut ==
    /\ ~panicked
    /\ next_tx_id <= MaxTx
    /\ Commit(cut(State), Op("cut", <<>>, <<>>))

InitCut == InitWith(ClipboardText, {})

NextCut ==
    \/ SelectCutRanges
    \/ Copy
    \/ Cut

SpecCut == InitCut /\ [][NextCut]_vars

\* ---------------------------------------------------- claims on cut and copy
\* Offset behind the line end that closes the line of offset; Len(text) + 1
\* where the line has no line end.
AfterLineEnd(text, offset) ==
    LET nl == {i \in (offset + 1)..Len(text) : text[i] = "\n"}
    IN IF nl = {} THEN Len(text) + 1 ELSE CHOOSE i \in nl : \A j \in nl : i <= j

\* The range a selection captures: its own range, or for an empty selection
\* its line through the trailing line end.
WholeLineRange(text, sel) ==
    IF sel.start = sel.end
    THEN [start |-> line_start(text, sel.start), end |-> AfterLineEnd(text, sel.start)]
    ELSE [start |-> sel.start, end |-> sel.end]

\* The text of that range, the line end included.
WholeLineText(text, sel) ==
    LET r == WholeLineRange(text, sel)
    IN IF r.end > Len(text) THEN SubSeq(text, r.start + 1, Len(text)) \o <<"\n">>
       ELSE SubSeq(text, r.start + 1, r.end)

\* The range the code captures: the line through its line end where it has
\* one, the line alone on the last row.
ClippedLineRange(text, sel) ==
    LET r == WholeLineRange(text, sel)
    IN [r EXCEPT !.end = Min(@, Len(text))]

RECURSIVE ConcatAll(_)
ConcatAll(texts) == IF texts = <<>> THEN <<>> ELSE Head(texts) \o ConcatAll(Tail(texts))

RECURSIVE SumLen(_, _)
SumLen(metadata, k) == IF k = 0 THEN 0 ELSE SumLen(metadata, k - 1) + metadata[k].len

\* The text left when the given ranges are removed.
WithoutRanges(text, ranges) ==
    LET keep == {p \in 1..Len(text) :
                    \A i \in 1..Len(ranges) : ~(ranges[i].start < p /\ p <= ranges[i].end)}
        F[k \in 0..Len(text)] ==
            IF k = 0 THEN <<>>
            ELSE IF k \in keep THEN Append(F[k - 1], text[k]) ELSE F[k - 1]
    IN F[Len(text)]

\* The clipboard item holds, selection by selection, the given texts.
ClipboardHolds(item, sels, texts) ==
    /\ item.metadata # <<>>
    /\ Len(item.metadata[1]) = Len(sels)
    /\ SumLen(item.metadata[1], Len(sels)) = Len(item.text)
    /\ \A i \in 1..Len(sels) :
          /\ item.metadata[1][i].is_entire_line = (sels[i].start = sels[i].end)
          /\ item.metadata[1][i].len = Len(texts[i])
          /\ SubSeq(item.text, SumLen(item.metadata[1], i - 1) + 1,
                    SumLen(item.metadata[1], i)) = texts[i]

CutOrCopyStep == last_op'.name \in {"cut", "copy"}

\* The step is a cut or a copy with an empty selection on the last row.
CaretOnLastRow ==
    \E i \in 1..Len(Resolved) :
        /\ Resolved[i].start = Resolved[i].end
        /\ row_of(buffer_text(cells), Resolved[i].start) = max_row(buffer_text(cells))

\* C21: cut and copy capture, for every empty selection, its whole line with
\* the trailing line end and tag the record is_entire_line; the records, in
\* selection order, have lengths that partition the clipboard text; copy
\* changes neither text nor selections; cut removes exactly the captured
\* ranges.
CutCopyWholeLine ==
    [][CutOrCopyStep =>
        LET text == buffer_text(cells)
            texts == [i \in 1..Len(Resolved) |-> WholeLineText(text, Resolved[i])]
            ranges == [i \in 1..Len(Resolved) |-> WholeLineRange(text, Resolved[i])]
        IN /\ clipboard' # <<>>
           /\ ClipboardHolds(clipboard'[1], Resolved, texts)
           /\ last_op'.name = "copy" => cells' = cells /\ selections' = selections
           /\ last_op'.name = "cut" => buffer_text(cells') = WithoutRanges(text, ranges)]_vars

\* Cut and copy with the ranges the code captures: on the last row the line
\* without a line end.
CutCopyClippedLine ==
    [][CutOrCopyStep =>
        LET text == buffer_text(cells)
            ranges == [i \in 1..Len(Resolved) |-> ClippedLineRange(text, Resolved[i])]
            texts == [i \in 1..Len(Resolved) |->
                         SubSeq(text, ranges[i].start + 1, ranges[i].end)]
        IN /\ clipboard' # <<>>
           /\ ClipboardHolds(clipboard'[1], Resolved, texts)
           /\ last_op'.name = "copy" => cells' = cells /\ selections' = selections
           /\ last_op'.name = "cut" => buffer_text(cells') = WithoutRanges(text, ranges)]_vars

\* Cut and copy of selections none of which is a caret on the last row.
CutCopyWholeLineAboveLastRow ==
    [][CutOrCopyStep /\ ~CaretOnLastRow =>
        LET text == buffer_text(cells)
            texts == [i \in 1..Len(Resolved) |-> WholeLineText(text, Resolved[i])]
            ranges == [i \in 1..Len(Resolved) |-> WholeLineRange(text, Resolved[i])]
        IN /\ clipboard' # <<>>
           /\ ClipboardHolds(clipboard'[1], Resolved, texts)
           /\ last_op'.name = "copy" => cells' = cells /\ selections' = selections
           /\ last_op'.name = "cut" => buffer_text(cells') = WithoutRanges(text, ranges)]_vars

\* ------------------------------------- search state and syntax stack, undo
\* Two occurrences of a word.
StaleText == <<"a", "b", " ", "a", "b">>

\* A caret in the first word, the first word, a caret in the second word.
StaleRangeLists ==
    {<<[start |-> 1, end |-> 1]>>, <<[start |-> 0, end |-> 2]>>, <<[start |-> 4, end |-> 4]>>}

\* select_ranges between the commands, never twice in a row.
SelectStaleRanges ==
    /\ ~panicked
    /\ last_op.name # "select_ranges"
    /\ \E ranges \in StaleRangeLists :
          /\ next_selection_id + Len(ranges) <= MaxSelId + 1
          /\ Commit(select_ranges(State, ranges, <<>>), Op("select_ranges", <<>>, ranges))

\* Transactions in the scenarios of the search state and the syntax stack.
MaxStaleTx == 1

\* Editor::insert of one character.
InsertChar ==
    /\ ~panicked
    /\ next_tx_id <= MaxStaleTx
    /\ Commit(insert(State, <<"x">>), Op("insert", <<>>, <<"x">>))

\* Entries on the syntax stack (undo and redo leave them there, so that
\* further select_larger calls add to them without end).
MaxSyntaxStack == 1

\* Editor::select_larger_syntax_node while the stack is below the bound.
SelectLargerBounded ==
    /\ Len(select_larger_syntax_node_stack) < MaxSyntaxStack
    /\ SelectLarger

InitStale == InitWith(StaleText, {})

NextStale ==
    \/ SelectStaleRanges
    \/ InsertChar
    \/ SelectNext
    \/ SelectLargerBounded
    \/ SelectSmaller
    \/ Undo
    \/ Redo

SpecStale == InitStale /\ [][NextStale]_vars

\* ------------------------ claims on the search state and the syntax stack
\* The step installs other selections and leaves no search state unless it is
\* select_next, and no syntax stack unless it is select_larger or
\* select_smaller.
ClearsStaleState ==
    selections' # selections =>
        /\ last_op'.name # "select_next" => select_next_state' = <<>>
        /\ last_op'.name \notin {"select_larger", "select_smaller"}
               => select_larger_syntax_node_stack' = <<>>

\* C22: whenever the selections are changed by an operation other than the
\* owning command (select_next for the search state, select_larger and
\* select_smaller for the syntax stack), undo and redo included, the search
\* state and the syntax stack are cleared.
SelectionChangeClearsStaleState == [][ClearsStaleState]_vars

\* The same for every operation but undo and redo.
SelectionUpdateClearsStaleState ==
    [][last_op'.name \notin {"undo", "redo"} => ClearsStaleState]_vars

\* A select_smaller that restores ranges recorded before an undo or redo
\* changed the selections.
SelectSmallerAfterUndo ==
    /\ last_op.name \in {"undo", "redo"}
    /\ select_larger_syntax_node_stack # <<>>
    /\ select_larger_syntax_node_stack[Len(select_larger_syntax_node_stack)] # selections

\* ------------------------------------------------------------ cursor blink
\* cx.spawn of a timer task that calls resume_cursor_blinking ("resume") or
\* blink_cursors ("blink") with the epoch it captured.
spawn(s, kind, epoch) == [s EXCEPT !.blink_tasks = @ \cup {[kind |-> kind, epoch |-> epoch]}]

\* Editor::next_blink_epoch
next_blink_epoch(s) == [s EXCEPT !.blink_epoch = @ + 1]

\* Editor::pause_cursor_blinking
pause_cursor_blinking(s) ==
    LET s1 == next_blink_epoch([s EXCEPT !.show_local_cursors = TRUE])
    IN spawn(s1, "resume", s1.blink_epoch)

\* blink_cursors toggling the cursors whatever epoch the caller holds.
blink_cursors_any_epoch(s, epoch) ==
    IF s.focused /\ ~s.blinking_paused
    THEN LET s1 == next_blink_epoch([s EXCEPT !.show_local_cursors = ~@])
         IN spawn(s1, "blink", s1.blink_epoch)
    ELSE s

\* Editor::blink_cursors
blink_cursors(s, epoch) ==
    IF epoch = s.blink_epoch /\ s.focused /\ ~s.blinking_paused
    THEN LET s1 == next_blink_epoch([s EXCEPT !.show_local_cursors = ~@])
         IN spawn(s1, "blink", s1.blink_epoch)
    ELSE s

\* Editor::resume_cursor_blinking
resume_cursor_blinking(s, epoch) ==
    IF epoch = s.blink_epoch
    THEN blink_cursors([s EXCEPT !.blinking_paused = FALSE], epoch)
    ELSE s

\* Editor::on_focus / Editor::on_blur
on_focus(s) == blink_cursors([s EXCEPT !.focused = TRUE], s.blink_epoch)
on_blur(s) == [s EXCEPT !.focused = FALSE, !.show_local_cursors = FALSE]

\* cx.focus_self() of an editor that is not focused: the window calls
\* on_focus when the handler returns.
focus_self(s) == IF s.focused THEN s ELSE on_focus(s)

\* ------------------------------------------------- interactive selection
\* Editor::pending_selection(snapshot)
pending_selection_of(s) ==
    IF s.pending_selection = <<>> THEN <<>>
    ELSE <<resolve_selection(s.cells, s.pending_selection[1].selection)>>

\* oldest_selection taking the committed selection with the greatest id.
oldest_selection_max_by_key(s) ==
    IF s.selections # <<>>
    THEN <<max_by_id(resolve_selections(s.cells, s.selections))>>
    ELSE pending_selection_of(s)

\* Editor::oldest_selection: Option, None where the code's unwrap fails.
oldest_selection(s) ==
    IF s.selections # <<>>
    THEN <<min_by_id(resolve_selections(s.cells, s.selections))>>
    ELSE pending_selection_of(s)

\* newest_selection taking the committed selection with the greatest id.
newest_selection_max_by_key(s) ==
    IF s.pending_selection # <<>> THEN pending_selection_of(s)
    ELSE IF s.selections # <<>>
         THEN <<max_by_id(resolve_selections(s.cells, s.selections))>>
         ELSE <<>>

\* Editor::newest_selection: the pending selection, else the committed
\* selection that min_by_key(|s| s.id) yields; None where the unwrap fails.
newest_selection(s) ==
    IF s.pending_selection # <<>> THEN pending_selection_of(s)
    ELSE IF s.selections # <<>>
         THEN <<min_by_id(resolve_selections(s.cells, s.selections))>>
         ELSE <<>>

\* The range and the mode a click of the given count starts with.
click_range(text, position, click_count) ==
    IF click_count = 1
    THEN [start |-> position, end |-> position, mode |-> "Character"]
    ELSE IF click_count = 2
    THEN LET range == surrounding_word(text, position)
         IN [start |-> range.start, end |-> range.end, mode |-> "Word"]
    ELSE IF click_count = 3
    THEN [start |-> line_start(text, position),
          end |-> row_start(text, row_of(text, position) + 1), mode |-> "Line"]
    ELSE [start |-> 0, end |-> Len(text), mode |-> "All"]

\* Editor::begin_selection
begin_selection(s, position, add, click_count) ==
    LET text == buffer_text(s.cells)
        click == click_range(text, position, click_count)
        start == anchor_before(s.cells, click.start)
        end == anchor_before(s.cells, click.end)
        selection == [id |-> s.next_selection_id, start |-> start, end |-> end,
                      reversed |-> FALSE, goal |-> NoGoal]
        pending == [selection |-> selection,
                    mode |-> [kind |-> click.mode, start |-> start, end |-> end]]
    IN Then([s EXCEPT !.next_selection_id = @ + 1], LAMBDA s1 :
       Then(IF ~add THEN update_selections(s1, <<>>, <<>>)
            ELSE IF click_count > 1
            THEN IF newest_selection(s1) = <<>> THEN [s1 EXCEPT !.panicked = TRUE]
                 ELSE update_selections(s1,
                          SelectSeq(local_selections(s1),
                                    LAMBDA sel : sel.id # newest_selection(s1)[1].id),
                          <<>>)
            ELSE s1, LAMBDA s2 :
       IF s2.panicked THEN s2
       ELSE focus_self([s2 EXCEPT !.pending_selection = <<pending>>])))

\* Editor::extend_selection
extend_selection(s, position, click_count) ==
    IF newest_selection(s) = <<>> THEN [s EXCEPT !.panicked = TRUE]
    ELSE LET tail_ == tail(newest_selection(s)[1])
             tail_anchor == anchor_before(s.cells, tail_)
         IN Then(begin_selection(s, position, FALSE, click_count), LAMBDA s1 :
            LET pending == s1.pending_selection[1]
                selection == IF position >= tail_
                             THEN [pending.selection EXCEPT !.start = tail_anchor]
                             ELSE [pending.selection EXCEPT !.end = tail_anchor,
                                                            !.reversed = TRUE]
                mode == IF pending.mode.kind \in {"Word", "Line"}
                        THEN [pending.mode EXCEPT !.start = tail_anchor, !.end = tail_anchor]
                        ELSE pending.mode
            IN [s1 EXCEPT !.pending_selection = <<[selection |-> selection, mode |-> mode]>>])

\* Editor::select_columns; tail and head are [row, column].
select_columns(s, tail_, head_, overshoot) ==
    LET text == buffer_text(s.cells)
        start_row == Min(tail_.row, head_.row)
        end_row == Max(tail_.row, head_.row)
        start_column == Min(tail_.column, head_.column + overshoot)
        end_column == Max(tail_.column, head_.column + overshoot)
        reversed == start_column < tail_.column
        rows == {row \in start_row..end_row : start_column <= line_len(text, row)}
        Nth(k) == CHOOSE row \in rows : Cardinality({r \in rows : r < row}) = k - 1
        sels == [k \in 1..Cardinality(rows) |->
                    [id |-> s.next_selection_id + k - 1,
                     start |-> point_to_offset(text, [row |-> Nth(k), column |-> start_column]),
                     end |-> point_to_offset(text, [row |-> Nth(k), column |-> end_column]),
                     reversed |-> reversed, goal |-> NoGoal]]
    IN update_selections([s EXCEPT !.next_selection_id = @ + Cardinality(rows)], sels, <<>>)

\* Editor::begin_columnar_selection
begin_columnar_selection(s, position, overshoot) ==
    IF newest_selection(s) = <<>> THEN [s EXCEPT !.panicked = TRUE]
    ELSE LET text == buffer_text(s.cells)
             tail_ == tail(newest_selection(s)[1])
         IN Then([s EXCEPT !.columnar_selection_tail = <<anchor_before(s.cells, tail_)>>],
                 LAMBDA s1 :
            focus_self(select_columns(s1,
                [row |-> row_of(text, tail_), column |-> column_of(text, tail_)],
                [row |-> row_of(text, position), column |-> column_of(text, position)],
                overshoot)))

\* Editor::set_scroll_position
set_scroll_position(s, scroll_position_) == [s EXCEPT !.scroll_position = scroll_position_]

\* The head and the tail Editor::update_selection gives the pending selection.
update_head_tail(text, c, pending, position) ==
    LET original == [start |-> summary_before(c, pending.mode.start),
                     end |-> summary_before(c, pending.mode.end)]
        word_range == surrounding_word(text, position)
        next_line_start == row_start(text, row_of(text, position) + 1)
        head_ ==
            IF pending.mode.kind = "Character" THEN position
            ELSE IF pending.mode.kind = "Word"
            THEN IF \/ is_inside_word(text, position)
                    \/ (original.start <= position /\ position < original.end)
                 THEN IF word_range.start < original.start THEN word_range.start
                      ELSE word_range.end
                 ELSE position
            ELSE IF line_start(text, position) < original.start
                 THEN line_start(text, position)
                 ELSE next_line_start
        tail_ ==
            IF pending.mode.kind = "Character"
            THEN tail(resolve_selection(c, pending.selection))
            ELSE IF head_ <= original.start THEN original.end ELSE original.start
    IN [head |-> head_, tail |-> tail_]

\* The last branch scrolling like the other two.
update_without_drag_scrolling(s, scroll_position_) ==
    set_scroll_position(s, scroll_position_)

\* The last branch of Editor::update_selection, taken with neither a columnar
\* tail nor a pending selection: log::error! and return.
update_without_drag(s, scroll_position_) == s

\* Editor::update_selection
update_selection(s, position, overshoot, scroll_position_) ==
    LET text == buffer_text(s.cells)
    IN IF s.columnar_selection_tail # <<>>
       THEN LET tail_ == summary_before(s.cells, s.columnar_selection_tail[1])
            IN set_scroll_position(
                   select_columns(s,
                       [row |-> row_of(text, tail_), column |-> column_of(text, tail_)],
                       [row |-> row_of(text, position), column |-> column_of(text, position)],
                       overshoot),
                   scroll_position_)
       ELSE IF s.pending_selection # <<>>
       THEN LET pending == s.pending_selection[1]
            IN IF pending.mode.kind = "All" THEN s
               ELSE LET ht == update_head_tail(text, s.cells, pending, position)
                        selection ==
                            IF ht.head < ht.tail
                            THEN [pending.selection EXCEPT
                                     !.start = anchor_before(s.cells, ht.head),
                                     !.end = anchor_before(s.cells, ht.tail),
                                     !.reversed = TRUE]
                            ELSE [pending.selection EXCEPT
                                     !.start = anchor_before(s.cells, ht.tail),
                                     !.end = anchor_before(s.cells, ht.head),
                                     !.reversed = FALSE]
                    IN set_scroll_position(
                           [s EXCEPT !.pending_selection =
                                <<[pending EXCEPT !.selection = selection]>>],
                           scroll_position_)
       ELSE update_without_drag(s, scroll_position_)

\* Editor::dismiss_diagnostics
dismiss_diagnostics(s) == [s EXCEPT !.active_diagnostics = <<>>]

\* cancel collapsing the pending selection it falls back to.
cancel_collapsing_pending(s) ==
    IF s.active_diagnostics # <<>> THEN dismiss_diagnostics(s)
    ELSE IF s.pending_selection # <<>>
    THEN LET selection == resolve_selection(s.cells, s.pending_selection[1].selection)
             s1 == [s EXCEPT !.pending_selection = <<>>]
         IN IF local_selections(s1) = <<>>
            THEN update_selections(s1,
                     <<[selection EXCEPT !.start = head(selection),
                                         !.end = head(selection)]>>, <<"Fit">>)
            ELSE s1
    ELSE IF oldest_selection(s) = <<>> THEN [s EXCEPT !.panicked = TRUE]
    ELSE LET oldest == oldest_selection(s)[1]
             collapsed == IF Len(s.selections) = 1
                          THEN [oldest EXCEPT !.start = head(oldest), !.end = head(oldest)]
                          ELSE oldest
         IN update_selections(s, <<collapsed>>, <<"Fit">>)

\* cancel dropping the pending selection without looking at what is left.
cancel_dropping_pending(s) ==
    IF s.active_diagnostics # <<>> THEN dismiss_diagnostics(s)
    ELSE IF s.pending_selection # <<>>
    THEN [s EXCEPT !.pending_selection = <<>>]
    ELSE IF oldest_selection(s) = <<>> THEN [s EXCEPT !.panicked = TRUE]
    ELSE LET oldest == oldest_selection(s)[1]
             collapsed == IF Len(s.selections) = 1
                          THEN [oldest EXCEPT !.start = head(oldest), !.end = head(oldest)]
                          ELSE oldest
         IN update_selections(s, <<collapsed>>, <<"Fit">>)

\* The branch Editor::cancel takes.
cancel_branch(s) ==
    IF s.active_diagnostics # <<>> THEN "diagnostics"
    ELSE IF s.pending_selection # <<>> THEN "pending"
    ELSE "selections"

\* Editor::cancel
cancel(s) ==
    IF s.active_diagnostics # <<>> THEN dismiss_diagnostics(s)
    ELSE IF s.pending_selection # <<>>
    THEN LET selection == resolve_selection(s.cells, s.pending_selection[1].selection)
             s1 == [s EXCEPT !.pending_selection = <<>>]
         IN IF local_selections(s1) = <<>>
            THEN update_selections(s1, <<selection>>, <<"Fit">>)
            ELSE s1
    ELSE IF oldest_selection(s) = <<>> THEN [s EXCEPT !.panicked = TRUE]
    ELSE LET oldest == oldest_selection(s)[1]
             collapsed == IF Len(s.selections) = 1
                          THEN [oldest EXCEPT !.start = head(oldest), !.end = head(oldest)]
                          ELSE oldest
         IN update_selections(s, <<collapsed>>, <<"Fit">>)

\* Editor::show_next_diagnostic over a buffer whose only diagnostic group has
\* the primary range entry: nothing is found while that group is pinned.
show_next_diagnostic(s, entry) ==
    IF newest_selection(s) = <<>> THEN [s EXCEPT !.panicked = TRUE]
    ELSE IF s.active_diagnostics # <<>> THEN s
    ELSE update_selections(
             [s EXCEPT !.active_diagnostics = <<[primary_range |-> entry]>>],
             <<[id |-> newest_selection(s)[1].id, start |-> entry.start,
                end |-> entry.start, reversed |-> FALSE, goal |-> NoGoal]>>,
             <<"Center">>)

\* Two lines of one word each.
DragText == <<"a", "b", "\n", "c", "d">>

\* The primary range of the diagnostic the buffer holds.
DiagnosticRange == [start |-> 3, end |-> 4]

\* The positions of clicks and of drag updates.
ClickPoints == {1, 4}
DragPoints == {0, 3, 5}

\* Click counts: character, word, line, all.
ClickCounts == {1, 2, 3, 4}

\* Highest selection id of the interactive scenarios.
MaxDragSelId == 3

\* Editor::select(SelectPhase::Begin).
BeginSelection ==
    /\ ~panicked
    /\ next_selection_id <= MaxDragSelId
    /\ \E position \in ClickPoints, add \in BOOLEAN, click_count \in ClickCounts :
          Commit(begin_selection(State, position, add, click_count),
                 Op("begin", <<>>, <<position, add, click_count>>))

\* Editor::select(SelectPhase::Extend).
ExtendSelection ==
    /\ ~panicked
    /\ next_selection_id <= MaxDragSelId
    /\ \E position \in DragPoints, click_count \in ClickCounts :
          Commit(extend_selection(State, position, click_count),
                 Op("extend", <<>>, <<position, click_count>>))

\* Editor::select(SelectPhase::BeginColumnar).
BeginColumnarSelection ==
    /\ ~panicked
    /\ next_selection_id + 1 <= MaxDragSelId
    /\ \E position \in ClickPoints :
          Commit(begin_columnar_selection(State, position, 0),
                 Op("begin_columnar", <<>>, <<position>>))

\* Editor::select(SelectPhase::Update).
UpdateSelection ==
    /\ ~panicked
    /\ columnar_selection_tail # <<>> => next_selection_id + 1 <= MaxDragSelId
    /\ \E position \in DragPoints, scroll_position_ \in {0, 1} :
          Commit(update_selection(State, position, 0, scroll_position_),
                 Op("update", <<>>, <<position, scroll_position_>>))

\* Editor::select(SelectPhase::End).
EndSelection ==
    /\ ~panicked
    /\ Commit(end_selection(State),
              Op("end", <<>>, <<pending_selection # <<>>, Len(selections)>>))

\* Editor::cancel.
Cancel ==
    /\ ~panicked
    /\ \E s \in {cancel(State)} :
          Commit(s, Op("cancel", <<cancel_branch(State)>>, <<Len(selections)>>))

\* Editor::show_next_diagnostic.
ShowNextDiagnostic ==
    /\ ~panicked
    /\ Commit(show_next_diagnostic(State, DiagnosticRange),
              Op("show_next_diagnostic", <<>>, <<>>))

InitDrag == InitWith(DragText, {})

NextDrag ==
    \/ BeginSelection
    \/ ExtendSelection
    \/ BeginColumnarSelection
    \/ UpdateSelection
    \/ EndSelection
    \/ Cancel
    \/ ShowNextDiagnostic

SpecDrag == InitDrag /\ [][NextDrag]_vars

\* Highest selection id in the scenarios of repeated cancel.
MaxCancelSelId == 2

\* Clicks and drags, then cancel pressed again and again: once cancel has
\* run, nothing but cancel runs.
SetUpSelections ==
    /\ last_op.name # "cancel"
    /\ \/ next_selection_id <= MaxCancelSelId /\ BeginSelection
       \/ UpdateSelection
       \/ EndSelection
       \/ ShowNextDiagnostic

NextCancel ==
    \/ SetUpSelections
    \/ Cancel

\* The user keeps pressing the key while it changes anything.
SpecCancel == InitDrag /\ [][NextCancel]_vars /\ WF_vars(Cancel)

\* --------------------------------------------------------- claims on cancel
CancelStep == last_op'.name = "cancel"

\* The fields cancel has no business with.
CancelLeavesText ==
    /\ cells' = cells
    /\ next_selection_id' = next_selection_id
    /\ columnar_selection_tail' = columnar_selection_tail
    /\ scroll_position' = scroll_position

\* With diagnostics pinned, cancel only unpins them.
CancelUnpins ==
    active_diagnostics # <<>> =>
        /\ active_diagnostics' = <<>>
        /\ selections' = selections
        /\ pending_selection' = pending_selection

\* With a drag pending, cancel drops the drag; the committed selections stay,
\* or, where there are none, the given fallback is installed.
CancelDropsDrag(fallback) ==
    active_diagnostics = <<>> /\ pending_selection # <<>> =>
        /\ pending_selection' = <<>>
        /\ active_diagnostics' = active_diagnostics
        /\ IF selections # <<>> THEN selections' = selections
           ELSE resolve_selections(cells', selections') = <<fallback>>

\* Otherwise cancel reduces the committed selections to one of them.
CancelReduces ==
    active_diagnostics = <<>> /\ pending_selection = <<>> =>
        /\ Len(selections') = 1
        /\ \E i \in 1..Len(selections) : selections'[1].id = selections[i].id
        /\ pending_selection' = <<>>
        /\ active_diagnostics' = active_diagnostics

\* The pending selection as the snapshot resolves it, and collapsed to its head.
PendingResolved == resolve_selection(cells, pending_selection[1].selection)
PendingCollapsed ==
    [PendingResolved EXCEPT !.start = head(PendingResolved), !.end = head(PendingResolved)]

\* C23: cancel performs one action chosen by precedence: it unpins pinned
\* diagnostics and nothing else; otherwise it cancels a pending drag, falling
\* back to the existing selections or, when there are none, to a collapsed
\* caret; otherwise it reduces the committed selections.
CancelFallsBackToCaret ==
    [][CancelStep =>
          /\ CancelLeavesText
          /\ CancelUnpins
          /\ CancelDropsDrag(PendingCollapsed)
          /\ CancelReduces]_vars

\* C23, amended: where a drag is pending and no selection is committed,
\* cancel commits the pending selection with the range and the direction the
\* drag gave it.
CancelFallsBackToPending ==
    [][CancelStep =>
          /\ CancelLeavesText
          /\ CancelUnpins
          /\ CancelDropsDrag(PendingResolved)
          /\ CancelReduces]_vars

\* A cancel has ended a drag over a range with no selection committed.
CancelFallsBackToPendingWitness ==
    /\ last_op.name = "cancel"
    /\ last_op.id = <<"pending">>
    /\ Len(Resolved) = 1
    /\ Resolved[1].start < Resolved[1].end
    /\ Resolved[1].reversed

\* A selection collapsed to its head.
CollapsedToHead(sel) == [sel EXCEPT !.start = head(sel), !.end = head(sel)]

\* A cancel with neither diagnostics pinned nor a drag pending leaves the
\* oldest selection as it is when there are two or more, and collapses the
\* selection to its head when there is one.
CancelKeepsOldest ==
    CancelStep /\ active_diagnostics = <<>> /\ pending_selection = <<>> =>
        resolve_selections(cells', selections') =
            IF Len(selections) >= 2 THEN <<min_by_id(Resolved)>>
            ELSE <<CollapsedToHead(Resolved[1])>>

\* The selections are one empty caret and cancel has nothing left to do.
SettledCaret ==
    /\ active_diagnostics = <<>>
    /\ pending_selection = <<>>
    /\ Len(Resolved) = 1
    /\ Resolved[1].start = Resolved[1].end

\* C24: with no pinned diagnostics and no pending drag, cancel on two or more
\* selections leaves exactly the oldest selection (lowest id) with its range
\* and direction, and cancel on one selection collapses it to its head;
\* repeated cancel therefore keeps the head of the oldest selection, ends in
\* a single empty caret and stays there.
CancelSettlesAtOldestHead ==
    /\ [][CancelKeepsOldest]_vars
    /\ <>[]SettledCaret

\* A cancel has reduced two selections to the older one, a reversed range.
CancelSettlesAtOldestHeadWitness ==
    /\ last_op.name = "cancel"
    /\ last_op.id = <<"selections">>
    /\ last_op.input = <<2>>
    /\ Len(Resolved) = 1
    /\ Resolved[1].start < Resolved[1].end
    /\ Resolved[1].reversed
    /\ Resolved[1].id < next_selection_id - 1

\* ---------------------------------------------- claims on begin and extend
BeginStep == last_op'.name = "begin"

\* The selections, the pending one merged in, as local_selections yields them.
Local == local_selections(State)

\* The selections without the one that has the greatest id.
WithoutNewest(sels) == SelectSeq(sels, LAMBDA sel : sel.id # max_by_id(sels).id)

\* The pending selection a click at position starts.
ClickStarts(position, click_count) ==
    LET click == click_range(buffer_text(cells), position, click_count)
        pending == resolve_selection(cells', pending_selection'[1].selection)
    IN /\ pending_selection' # <<>>
       /\ pending.id = next_selection_id
       /\ pending.start = click.start
       /\ pending.end = click.end
       /\ ~pending.reversed
       /\ next_selection_id' = next_selection_id + 1

\* C25: begin(position, add, click_count) with add=false replaces the whole
\* SelectionSet by the pending selection; with add=true and click_count=1 it
\* keeps every existing selection; with add=true and click_count>1 it removes
\* exactly the previously newest selection (highest id) and keeps every older
\* one.
BeginRemovesNewest ==
    [][BeginStep =>
        LET position == last_op'.input[1]
            add == last_op'.input[2]
            click_count == last_op'.input[3]
        IN /\ ClickStarts(position, click_count)
           /\ ~add => selections' = <<>>
           /\ add /\ click_count = 1 => selections' = selections
           /\ add /\ click_count > 1 =>
                  resolve_selections(cells', selections') = WithoutNewest(Local)]_vars

ExtendStep == last_op'.name = "extend"

\* The selection with the greatest id, the pending one if there is one.
Newest == IF pending_selection # <<>> THEN PendingResolved ELSE max_by_id(Resolved)

\* C26: extend(position, click_count) creates a pending selection whose tail
\* is the tail of the current newest selection (the pending one, or the
\* committed one with the highest id) and whose head is at position (at the
\* end of the word, line or text clicked, for a click count above 1),
\* reversed exactly when position is before that tail.
ExtendKeepsNewestTail ==
    [][ExtendStep =>
        LET position == last_op'.input[1]
            click_count == last_op'.input[2]
            click == click_range(buffer_text(cells), position, click_count)
            pending == resolve_selection(cells', pending_selection'[1].selection)
        IN /\ pending_selection' # <<>>
           /\ tail(pending) = tail(Newest)
           /\ head(pending) = IF position >= tail(Newest) THEN click.end ELSE click.start
           /\ pending.reversed = (position < tail(Newest))]_vars

\* --------------------------------------------------- claims on update, end
UpdateStep == last_op'.name = "update"

\* Editor::is_selecting
IsSelecting == pending_selection # <<>> \/ columnar_selection_tail # <<>>

\* C27: a drag update received when no drag is pending is a no-op: committed
\* selections, pending state and scroll position are unchanged (and so is
\* everything else), and the editor has not failed.
UpdateWithoutDragIsNoOp ==
    [][UpdateStep /\ ~IsSelecting =>
          /\ selections' = selections
          /\ pending_selection' = pending_selection
          /\ columnar_selection_tail' = columnar_selection_tail
          /\ scroll_position' = scroll_position
          /\ cells' = cells
          /\ next_selection_id' = next_selection_id
          /\ active_diagnostics' = active_diagnostics
          /\ ~panicked']_vars

\* An update asking for another scroll position has run with no drag pending.
UpdateWithoutDragIsNoOpWitness ==
    /\ last_op.name = "update"
    /\ ~IsSelecting
    /\ last_op.input[2] # scroll_position
    /\ Len(selections) >= 1

EndStep == last_op'.name = "end"

\* The committed selections the pending selection overlaps or touches.
TouchedByPending ==
    {i \in 1..Len(Resolved) :
        /\ Resolved[i].start <= PendingResolved.end
        /\ Resolved[i].end >= PendingResolved.start}

\* The pending selection grown over the selections it touches.
PendingMerged ==
    [PendingResolved EXCEPT
        !.start = CHOOSE x \in {Resolved[i].start : i \in TouchedByPending} \cup {@} :
                      \A y \in {Resolved[i].start : i \in TouchedByPending} \cup {@} : x <= y,
        !.end = CHOOSE x \in {Resolved[i].end : i \in TouchedByPending} \cup {@} :
                    \A y \in {Resolved[i].end : i \in TouchedByPending} \cup {@} : x >= y]

\* C28: end() commits the pending selection into the SelectionSet: every
\* committed selection it overlaps or touches is merged into it, the merged
\* selection keeping the pending selection's id and direction, the others
\* stay in sorted position; afterwards neither a pending selection nor a
\* columnar tail remains; with no pending selection the SelectionSet is
\* unchanged.
EndCommitsPending ==
    [][EndStep =>
          /\ pending_selection' = <<>>
          /\ columnar_selection_tail' = <<>>
          /\ IF pending_selection = <<>> THEN selections' = selections
             ELSE resolve_selections(cells', selections') =
                      SelectSeq(Resolved, LAMBDA sel : sel.end < PendingResolved.start)
                          \o <<PendingMerged>>
                          \o SelectSeq(Resolved, LAMBDA sel : sel.start > PendingResolved.end)]_vars

\* An end has merged a reversed pending selection with a committed one and
\* left another committed one in front of it.
EndCommitsPendingWitness ==
    /\ last_op.name = "end"
    /\ last_op.input = <<TRUE, 2>>
    /\ Len(Resolved) = 2
    /\ Resolved[2].id = next_selection_id - 1
    /\ Resolved[2].reversed
    /\ Resolved[1].end < Resolved[2].start

\* ---------------------------------------------------------------- movement
Column(c) == [kind |-> "Column", column |-> c]

\* movement::left / movement::right: one character back or on, across line
\* ends, staying at the ends of the text.
movement_left(text, offset) == Max(offset - 1, 0)
movement_right(text, offset) == Min(offset + 1, Len(text))

\* The column a vertical movement aims at: the goal's, else the point's own.
goal_column(text, offset, goal) ==
    IF goal.kind = "Column" THEN goal.column ELSE column_of(text, offset)

\* movement::up / movement::down: the point one row up or down at the goal
\* column clipped to the row's length; the start of the text from the first
\* row, the end of the text from the last; the goal column is handed back.
movement_up(text, offset, goal) ==
    LET column == goal_column(text, offset, goal)
        row == row_of(text, offset)
    IN [point |-> IF row > 0 THEN point_to_offset(text, [row |-> row - 1, column |-> column])
                  ELSE 0,
        goal |-> Column(column)]

movement_down(text, offset, goal) ==
    LET column == goal_column(text, offset, goal)
        row == row_of(text, offset)
    IN [point |-> IF row < max_row(text)
                  THEN point_to_offset(text, [row |-> row + 1, column |-> column])
                  ELSE Len(text),
        goal |-> Column(column)]

\* Selection::set_head
set_head(sel, head_) ==
    IF head_ < tail(sel)
    THEN [sel EXCEPT !.end = IF ~sel.reversed THEN sel.start ELSE @,
                     !.start = head_, !.reversed = TRUE]
    ELSE [sel EXCEPT !.start = IF sel.reversed THEN sel.end ELSE @,
                     !.end = head_, !.reversed = FALSE]

\* A caret at offset.
caret_at(sel, offset, goal) ==
    [sel EXCEPT !.start = offset, !.end = offset, !.reversed = FALSE, !.goal = goal]

\* The loop body of every movement command applied to each selection.
move_each(s, Moved(_)) ==
    LET selections_ == local_selections(s)
    IN update_selections(s, [i \in 1..Len(selections_) |-> Moved(selections_[i])],
                         <<"Fit">>)

\* Editor::move_left
move_left(s) ==
    LET text == buffer_text(s.cells)
    IN move_each(s, LAMBDA sel :
           IF sel.start # sel.end THEN caret_at(sel, sel.start, NoGoal)
           ELSE caret_at(sel, movement_left(text, sel.start), NoGoal))

\* Editor::select_left
select_left(s) ==
    LET text == buffer_text(s.cells)
    IN move_each(s, LAMBDA sel :
           [set_head(sel, movement_left(text, head(sel))) EXCEPT !.goal = NoGoal])

\* Editor::move_right
move_right(s) ==
    LET text == buffer_text(s.cells)
    IN move_each(s, LAMBDA sel :
           IF sel.start # sel.end THEN caret_at(sel, sel.end, NoGoal)
           ELSE caret_at(sel, movement_right(text, sel.end), NoGoal))

\* Editor::select_right
select_right(s) ==
    LET text == buffer_text(s.cells)
    IN move_each(s, LAMBDA sel :
           [set_head(sel, movement_right(text, head(sel))) EXCEPT !.goal = NoGoal])

\* Editor::move_up (EditorMode::Full)
move_up(s) ==
    LET text == buffer_text(s.cells)
    IN move_each(s, LAMBDA sel :
           LET goal == IF sel.start # sel.end THEN NoGoal ELSE sel.goal
               up == movement_up(text, sel.start, goal)
           IN caret_at(sel, up.point, up.goal))

\* Editor::select_up
select_up(s) ==
    LET text == buffer_text(s.cells)
    IN move_each(s, LAMBDA sel :
           LET up == movement_up(text, head(sel), sel.goal)
           IN [set_head(sel, up.point) EXCEPT !.goal = up.goal])

\* move_down forgetting the goal: every call starts from the caret's column.
move_down_without_goal(s) ==
    LET text == buffer_text(s.cells)
    IN move_each(s, LAMBDA sel :
           LET down == movement_down(text, sel.end, NoGoal)
           IN caret_at(sel, down.point, down.goal))

\* Editor::move_down (EditorMode::Full)
move_down(s) ==
    LET text == buffer_text(s.cells)
    IN move_each(s, LAMBDA sel :
           LET goal == IF sel.start # sel.end THEN NoGoal ELSE sel.goal
               down == movement_down(text, sel.end, goal)
           IN caret_at(sel, down.point, down.goal))

\* Editor::select_down
select_down(s) ==
    LET text == buffer_text(s.cells)
    IN move_each(s, LAMBDA sel :
           LET down == movement_down(text, head(sel), sel.goal)
           IN [set_head(sel, down.point) EXCEPT !.goal = down.goal])

\* Editor::select_to_beginning: the last selection, its head at the start.
select_to_beginning(s) ==
    LET selections_ == local_selections(s)
    IN update_selections(s, <<set_head(selections_[Len(selections_)], 0)>>, <<"Fit">>)

\* Editor::select_to_end: the first selection, its head at the end.
select_to_end(s) ==
    LET selections_ == local_selections(s)
    IN update_selections(s, <<set_head(selections_[1], buffer_len(s.cells))>>, <<"Fit">>)

\* Lines of three, one and three characters.
MoveText == <<"a", "b", "c", "\n", "a", "\n", "a", "b", "c">>

\* The selections movement starts from: a caret at the end of the first line,
\* a range on the last line, two carets.
MoveRangeLists ==
    {<<[start |-> 3, end |-> 3]>>, <<[start |-> 7, end |-> 9]>>,
     <<[start |-> 2, end |-> 2], [start |-> 8, end |-> 8]>>}

\* select_ranges before the movement, never twice in a row.
SelectMoveRanges ==
    /\ ~panicked
    /\ last_op.name # "select_ranges"
    /\ \E ranges \in MoveRangeLists :
          /\ next_selection_id + Len(ranges) <= MaxSelId + 1
          /\ Commit(select_ranges(State, ranges, <<>>), Op("select_ranges", <<>>, ranges))

\* The horizontal commands.
MoveHorizontally ==
    /\ ~panicked
    /\ \/ \E s \in {move_left(State)} : Commit(s, Op("move_left", <<>>, <<>>))
       \/ \E s \in {select_left(State)} : Commit(s, Op("select_left", <<>>, <<>>))
       \/ \E s \in {move_right(State)} : Commit(s, Op("move_right", <<>>, <<>>))
       \/ \E s \in {select_right(State)} : Commit(s, Op("select_right", <<>>, <<>>))

\* The vertical commands.
MoveVertically ==
    /\ ~panicked
    /\ \/ \E s \in {move_up(State)} : Commit(s, Op("move_up", <<>>, <<>>))
       \/ \E s \in {select_up(State)} : Commit(s, Op("select_up", <<>>, <<>>))
       \/ \E s \in {move_down(State)} : Commit(s, Op("move_down", <<>>, <<>>))
       \/ \E s \in {select_down(State)} : Commit(s, Op("select_down", <<>>, <<>>))

\* The commands that move the head to an end of the text.
SelectToEnds ==
    /\ ~panicked
    /\ \/ \E s \in {select_to_beginning(State)} :
             Commit(s, Op("select_to_beginning", <<>>, <<>>))
       \/ \E s \in {select_to_end(State)} : Commit(s, Op("select_to_end", <<>>, <<>>))

InitMove == InitWith(MoveText, {})

NextMove ==
    \/ SelectMoveRanges
    \/ MoveHorizontally
    \/ MoveVertically
    \/ SelectToEnds

SpecMove == InitMove /\ [][NextMove]_vars

\* ------------------------------------------------------ claims on movement
VerticalStep == last_op'.name \in {"move_up", "select_up", "move_down", "select_down"}

HorizontalStep == last_op'.name \in {"move_left", "select_left", "move_right", "select_right"}

SelectToEndsStep == last_op'.name \in {"select_to_beginning", "select_to_end"}

\* The goal a vertical command starts from: move_up and move_down drop the
\* goal of a selection that is not a caret.
CarriedGoal(sel) ==
    IF last_op'.name \in {"move_up", "move_down"} /\ sel.start # sel.end
    THEN NoGoal ELSE sel.goal

\* The selection sits at its goal column, or at the end of its line where the
\* line is shorter, or at an end of the text.
AtGoalColumn(text, sel) ==
    \/ head(sel) \in {0, Len(text)}
    \/ column_of(text, head(sel))
         = Min(sel.goal.column, line_len(text, row_of(text, head(sel))))

\* A vertical command leaves every selection with a column goal: the one it
\* carried in, else the column it started from; and at that column where the
\* line is long enough (selections that the move made overlap are merged
\* into one, whose head is no longer the head that moved).
VerticalKeepsGoal ==
    VerticalStep =>
        \A i \in 1..Len(Resolved') :
            /\ Resolved'[i].goal.kind = "Column"
            /\ Len(Resolved') = Len(Local)
                  => AtGoalColumn(buffer_text(cells), Resolved'[i])
            /\ \E j \in 1..Len(Local) :
                  /\ Local[j].id = Resolved'[i].id
                  /\ CarriedGoal(Local[j]).kind = "Column"
                        => Resolved'[i].goal = Local[j].goal

AllGoalsNone == \A i \in 1..Len(Resolved') : Resolved'[i].goal = NoGoal

\* C29: move_up, move_down, select_up and select_down carry each selection's
\* goal column from one call to the next and put the head at that column as
\* soon as the line is long enough; every other movement command leaves every
\* selection with goal None.
VerticalCarriesGoalOthersReset ==
    [][/\ VerticalKeepsGoal
       /\ HorizontalStep \/ SelectToEndsStep => AllGoalsNone]_vars

\* The vertical commands carry the goal, and move_left, select_left,
\* move_right and select_right reset it.
VerticalCarriesGoalHorizontalResets ==
    [][/\ VerticalKeepsGoal
       /\ HorizontalStep => AllGoalsNone]_vars

\* A caret back at column 3 of the last line after passing the short line.
BackAtColumn ==
    /\ last_op.name = "move_down"
    /\ Len(Resolved) = 1
    /\ Resolved[1].start = 9 /\ Resolved[1].end = 9
    /\ Resolved[1].goal = Column(3)

\* A head at the start of the text that still aims at column 3.
StaleGoalAtBeginning ==
    /\ last_op.name = "select_to_beginning"
    /\ \E i \in 1..Len(Resolved) : Resolved[i].goal = Column(3)

\* ------------------------------------------------------ cursor blink timers
\* The greatest blink epoch explored.
MaxEpoch == 4

\* The task's timer has elapsed: its closure calls resume_cursor_blinking or
\* blink_cursors with the epoch it captured.
fire(s, task) ==
    LET s1 == [s EXCEPT !.blink_tasks = @ \ {task}]
    IN IF task.kind = "resume" THEN resume_cursor_blinking(s1, task.epoch)
       ELSE blink_cursors(s1, task.epoch)

\* A command that updates the selections: update_selections ends with
\* pause_cursor_blinking.
MoveBlinking ==
    /\ ~panicked
    /\ blink_epoch < MaxEpoch
    /\ \/ \E s \in {pause_cursor_blinking(move_left(State))} :
             Commit(s, Op("move_left", <<>>, <<>>))
       \/ \E s \in {pause_cursor_blinking(move_right(State))} :
             Commit(s, Op("move_right", <<>>, <<>>))

\* One of the scheduled timers fires, in any order.
Fire ==
    /\ ~panicked
    /\ blink_epoch < MaxEpoch
    /\ \E task \in blink_tasks :
          \E s \in {fire(State, task)} :
             Commit(s, Op("fire", <<task.kind>>, <<task.epoch>>))

\* The window gives the editor the focus.
OnFocus ==
    /\ ~panicked
    /\ ~focused
    /\ blink_epoch < MaxEpoch
    /\ \E s \in {on_focus(State)} : Commit(s, Op("on_focus", <<>>, <<>>))

\* The window takes the focus away.
OnBlur ==
    /\ ~panicked
    /\ focused
    /\ \E s \in {on_blur(State)} : Commit(s, Op("on_blur", <<>>, <<>>))

InitBlink == InitWith(<<"a", "b">>, {})

NextBlink ==
    \/ MoveBlinking
    \/ Fire
    \/ OnFocus
    \/ OnBlur

SpecBlink == InitBlink /\ [][NextBlink]_vars

\* --------------------------------------------------- claims on cursor blink
FireStep == last_op'.name = "fire"

FiredEpoch == last_op'.input[1]

\* The step leaves the visibility, the epoch, the pause flag and the other
\* scheduled tasks as they were.
BlinkNoOp ==
    /\ show_local_cursors' = show_local_cursors
    /\ blink_epoch' = blink_epoch
    /\ blinking_paused' = blinking_paused
    /\ blink_tasks' = blink_tasks \ {[kind |-> last_op'.id[1], epoch |-> FiredEpoch]}

\* Every task scheduled before the step holds an epoch older than the
\* current one after it.
OlderTasksStale == \A task \in blink_tasks : task.epoch < blink_epoch'

\* C30: a timer that fires changes the cursors' visibility only if the epoch
\* it captured is the current blink_epoch, and does nothing otherwise;
\* blink_epoch never decreases; a selection update or a tick that took effect
\* leaves every task scheduled before it with an older epoch.
StaleBlinkTaskIsNoOp ==
    [][/\ blink_epoch' >= blink_epoch
       /\ FireStep /\ FiredEpoch # blink_epoch => BlinkNoOp
       /\ FireStep /\ show_local_cursors' # show_local_cursors
             => FiredEpoch = blink_epoch
       /\ blink_epoch' # blink_epoch => OlderTasksStale]_vars

\* A tick fired after a selection update had made it stale, with the resume
\* task of that update still scheduled.
StaleBlinkTaskIsNoOpWitness ==
    /\ last_op.name = "fire"
    /\ last_op.id = <<"blink">>
    /\ last_op.input[1] < blink_epoch
    /\ focused
    /\ \E task \in blink_tasks : task.kind = "resume" /\ task.epoch = blink_epoch

\* ---------------------------------------------------------- toggle_comments
\* The language's line comment prefix: a token and its trailing whitespace.
full_comment_prefix == <<"#", " ">>

\* full_comment_prefix.trim_end_matches(' ')
comment_prefix == <<"#">>

comment_prefix_whitespace ==
    SubSeq(full_comment_prefix, Len(comment_prefix) + 1, Len(full_comment_prefix))

\* BufferSnapshot::indent_column_for_line: the number of leading spaces.
indent_column_for_line(text, row) ==
    LET from == row_start(text, row)
        len == line_len(text, row)
    IN CHOOSE k \in 0..len :
          /\ \A i \in 1..k : text[from + i] = " "
          /\ k < len => text[from + k + 1] # " "

\* BufferSnapshot::is_line_blank
is_line_blank(text, row) == indent_column_for_line(text, row) = line_len(text, row)

\* The number of leading elements two sequences share.
matching_len(a, b) ==
    CHOOSE k \in 0..Min(Len(a), Len(b)) :
       /\ \A i \in 1..k : a[i] = b[i]
       /\ k < Min(Len(a), Len(b)) => a[k + 1] # b[k + 1]

\* The loop of toggle_comments over the rows of one selection; acc holds
\* all_selection_lines_are_comments, last_toggled_row and edit_ranges
\* (as row, start column and end column).
RECURSIVE toggle_rows(_, _, _, _)
toggle_rows(text, row, end_row, acc) ==
    IF row >= end_row THEN acc
    ELSE IF acc.last = <<row>> THEN toggle_rows(text, row + 1, end_row, acc)
    ELSE LET acc1 == [acc EXCEPT !.last = <<row>>]
             column == indent_column_for_line(text, row)
             start == row_start(text, row) + column
             after == SubSeq(text, start + Len(comment_prefix) + 1, Len(text))
         IN IF is_line_blank(text, row) THEN toggle_rows(text, row + 1, end_row, acc1)
            ELSE IF acc.all /\ contains_str_at(text, start, comment_prefix)
            THEN toggle_rows(text, row + 1, end_row,
                    [acc1 EXCEPT !.edits = Append(@,
                        [row |-> row, start |-> column,
                         end |-> column + Len(comment_prefix)
                                   + matching_len(after, comment_prefix_whitespace)])])
            ELSE toggle_rows(text, row + 1, end_row,
                    [acc1 EXCEPT !.all = FALSE,
                                 !.edits = Append(@,
                                     [row |-> row, start |-> column, end |-> column])])

\* The smallest start column of the edit ranges.
min_column(edits) ==
    CHOOSE c \in {edits[i].start : i \in 1..Len(edits)} :
       \A i \in 1..Len(edits) : c <= edits[i].start

\* The rows a selection makes toggle_comments visit, the end exclusive; the
\* selection's points were resolved before the first edit.
toggled_rows(text, sel) ==
    LET start_row == row_of(text, sel.start)
        end_row_ == row_of(text, sel.end)
    IN [start |-> start_row,
        end |-> IF end_row_ > start_row /\ column_of(text, sel.end) = 0
                THEN end_row_ ELSE end_row_ + 1]

\* The loop of toggle_comments over the selections: each selection's rows
\* are inspected in the buffer as the selections before it left it, and
\* edited in one buffer edit.
RECURSIVE toggle_selections(_, _, _, _, _)
toggle_selections(s, rows, i, all, last) ==
    IF i > Len(rows) THEN s
    ELSE LET text == buffer_text(s.cells)
             acc == toggle_rows(text, rows[i].start, rows[i].end,
                                [all |-> all, last |-> last, edits |-> <<>>])
             edits == acc.edits
             removed == [k \in 1..Len(edits) |->
                 [start |-> row_start(text, edits[k].row) + edits[k].start,
                  end |-> row_start(text, edits[k].row) + edits[k].end]]
             inserted == [k \in 1..Len(edits) |->
                 [start |-> row_start(text, edits[k].row) + min_column(edits),
                  end |-> row_start(text, edits[k].row) + min_column(edits)]]
             s1 == IF edits = <<>> THEN s
                   ELSE IF acc.all THEN buffer_edit(s, removed, <<>>)
                   ELSE buffer_edit(s, inserted, full_comment_prefix)
         IN toggle_selections(s1, rows, i + 1, acc.all, acc.last)

\* Editor::toggle_comments of a buffer whose language has a line comment.
toggle_comments(s) ==
    Then(start_transaction_at(s), LAMBDA s1 :
    Then(local_selections(s1), LAMBDA selections_ :
    Then([i \in 1..Len(selections_) |->
             toggled_rows(buffer_text(s1.cells), selections_[i])], LAMBDA rows :
    Then(toggle_selections(s1, rows, 1, TRUE, <<>>), LAMBDA s2 :
    Then(update_selections(s2, local_selections(s2), <<"Fit">>), LAMBDA s3 :
        end_transaction_at(s3))))))

\* A commented line, an indented line, a blank line, a commented line
\* without whitespace after the token.
CommentText == <<"#", " ", "a", "\n", " ", "b", "\n", "\n", "#", "c">>

\* Ranges that start at the start of a row and end at the start or the end
\* of a row.
RowRanges(text) ==
    {[start |-> row_start(text, r1), end |-> row_start(text, r2) + e] :
        r1 \in 0..max_row(text), r2 \in 0..max_row(text), e \in 0..Len(text)}
    \cap {range \in [start : 0..Len(text), end : 0..Len(text)] :
            /\ range.start <= range.end
            /\ column_of(text, range.end) \in
                 {0, line_len(text, row_of(text, range.end))}}

\* select_ranges with one or two row ranges in ascending order, never twice
\* in a row.
SelectRowRanges ==
    /\ ~panicked
    /\ last_op.name # "select_ranges"
    /\ \E ranges \in UNION {[1..k -> RowRanges(buffer_text(cells))] : k \in 1..2} :
          /\ \A i \in 1..Len(ranges) - 1 : ranges[i].end <= ranges[i + 1].start
          /\ next_selection_id + Len(ranges) <= MaxSelId + 1
          /\ \E s \in {select_ranges(State, ranges, <<>>)} :
                Commit(s, Op("select_ranges", <<>>, ranges))

ToggleComments ==
    /\ ~panicked
    /\ next_tx_id <= MaxTx
    /\ \E s \in {toggle_comments(State)} : Commit(s, Op("toggle_comments", <<>>, <<>>))

InitComment == InitWith(CommentText, {})

NextComment ==
    \/ SelectRowRanges
    \/ ToggleComments

SpecComment == InitComment /\ [][NextComment]_vars

\* ------------------------------------------------ claims on toggle_comments
ToggleStep == last_op'.name = "toggle_comments"

\* The characters of a row, without its line end.
row_text(text, row) ==
    SubSeq(text, row_start(text, row) + 1, row_start(text, row) + line_len(text, row))

\* The non-blank rows touched by any of the selections.
TouchedRows(text, sels) ==
    {row \in 0..max_row(text) :
        /\ ~is_line_blank(text, row)
        /\ \E i \in 1..Len(sels) :
              /\ toggled_rows(text, sels[i]).start <= row
              /\ row < toggled_rows(text, sels[i]).end}

\* The row starts, past its indentation, with the comment token.
IsComment(text, row) ==
    contains_str_at(text, row_start(text, row) + indent_column_for_line(text, row),
                    comment_prefix)

\* The row without the token and the whitespace behind it that matches the
\* prefix's.
Uncommented(text, row) ==
    LET line == row_text(text, row)
        column == indent_column_for_line(text, row)
        after == SubSeq(line, column + Len(comment_prefix) + 1, Len(line))
    IN SubSeq(line, 1, column)
         \o SubSeq(after, matching_len(after, comment_prefix_whitespace) + 1, Len(after))

\* The row with the prefix put in at a column.
Commented(text, row, column) ==
    LET line == row_text(text, row)
    IN SubSeq(line, 1, column) \o full_comment_prefix
         \o SubSeq(line, column + 1, Len(line))

\* The rows of a text joined by line ends, from row on.
RECURSIVE JoinRows(_, _, _)
JoinRows(rows, row, last_row) ==
    IF row = last_row THEN rows[row]
    ELSE rows[row] \o <<"\n">> \o JoinRows(rows, row + 1, last_row)

\* The text after one decision over all touched rows: tokens stripped from
\* all of them, or the prefix put in at their least indentation on those of
\* them that OnRow accepts.
ToggledText(text, sels, OnRow(_)) ==
    LET touched == TouchedRows(text, sels)
        all == \A row \in touched : IsComment(text, row)
        least == CHOOSE c \in {indent_column_for_line(text, row) : row \in touched} :
                    \A row \in touched : c <= indent_column_for_line(text, row)
        rows == [row \in 0..max_row(text) |->
                    IF row \notin touched THEN row_text(text, row)
                    ELSE IF all THEN Uncommented(text, row)
                    ELSE IF OnRow(row) THEN Commented(text, row, least)
                    ELSE row_text(text, row)]
    IN JoinRows(rows, 0, max_row(text))

\* C31: toggle_comments decides once over all touched non-blank rows: where
\* all of them start with the token it is stripped from each of them, else
\* the prefix is put in, at the least indentation of the touched rows, on
\* those of them that lack the token; every row is edited at most once and
\* blank rows are left alone.
ToggleDecidesOnce ==
    [][ToggleStep =>
         buffer_text(cells') =
            ToggledText(buffer_text(cells), Local,
                        LAMBDA row : ~IsComment(buffer_text(cells), row))]_vars

\* The same for one selection, with the prefix put in on every touched
\* non-blank row.
ToggleOneSelection ==
    [][ToggleStep /\ Len(Local) = 1 =>
         buffer_text(cells') =
            ToggledText(buffer_text(cells), Local, LAMBDA row : TRUE)]_vars

\* ----------------------------------------------------------------- newline
\* The pairs of language.brackets() with newline set, trimmed.
NewlineBrackets == <<[start |-> <<"{">>, end |-> <<"}">>]>>

\* The length of the run of blanks in front of an offset / behind it.
leading_whitespace_len(text, offset) ==
    CHOOSE k \in 0..offset :
       /\ \A i \in 1..k : text[offset - i + 1] = " "
       /\ k < offset => text[offset - k] # " "

trailing_whitespace_len(text, offset) ==
    CHOOSE k \in 0..(Len(text) - offset) :
       /\ \A i \in 1..k : text[offset + i] = " "
       /\ k < Len(text) - offset => text[offset + k + 1] # " "

\* The first loop of Editor::newline: id, range, indent and
\* insert_extra_newline of every selection, in one snapshot.
newline_old_selections(text, sels) ==
    [i \in 1..Len(sels) |->
        LET start == sels[i].start
            end_ == sels[i].end
        IN [id |-> sels[i].id, start |-> start, end |-> end_,
            indent |-> Min(indent_column_for_line(text, row_of(text, start)),
                           column_of(text, start)),
            insert_extra_newline |->
                \E k \in 1..Len(NewlineBrackets) :
                   /\ contains_str_at(text, end_ + trailing_whitespace_len(text, end_),
                                      NewlineBrackets[k].end)
                   /\ contains_str_at(text,
                          saturating_sub(start - leading_whitespace_len(text, start),
                                         Len(NewlineBrackets[k].start)),
                          NewlineBrackets[k].start)]]

\* "\n" and indent spaces, twice for an extra newline.
newline_text(indent, insert_extra_newline) ==
    LET once == <<"\n">> \o [i \in 1..indent |-> " "]
    IN IF insert_extra_newline THEN once \o once ELSE once

\* buffer.edit_with_autoindent of the pending edit, in a language without
\* indentation rules.
flush_pending(s, pending) ==
    buffer_edit(s, pending.ranges, newline_text(pending.indent, pending.insert_extra_newline))

\* The edit loop forgetting the growth of the edits already made.
RECURSIVE newline_edits_without_delta(_, _, _, _, _)
newline_edits_without_delta(s, old, i, delta, pending) ==
    IF i > Len(old)
    THEN flush_pending(s, pending[1])
    ELSE LET differs == /\ pending # <<>>
                        /\ \/ pending[1].indent # old[i].indent
                           \/ pending[1].insert_extra_newline # old[i].insert_extra_newline
             s1 == IF differs THEN flush_pending(s, pending[1]) ELSE s
             start == old[i].start
             end_ == old[i].end
             text_len == Len(newline_text(old[i].indent, old[i].insert_extra_newline))
             before == IF differs \/ pending = <<>>
                       THEN [delta |-> 0, ranges |-> <<>>]
                       ELSE pending[1]
         IN newline_edits_without_delta(s1, old, i + 1, delta,
                <<[indent |-> old[i].indent,
                   insert_extra_newline |-> old[i].insert_extra_newline,
                   delta |-> before.delta + text_len - (end_ - start),
                   ranges |-> Append(before.ranges, [start |-> start, end |-> end_])]>>)

\* The edit loop of Editor::newline: selections with the same indent and
\* insert_extra_newline in a row are edited in one buffer edit; delta is the
\* growth of the text by the edits already made.
RECURSIVE newline_edits(_, _, _, _, _)
newline_edits(s, old, i, delta, pending) ==
    IF i > Len(old)
    THEN flush_pending(s, pending[1])
    ELSE LET differs == /\ pending # <<>>
                        /\ \/ pending[1].indent # old[i].indent
                           \/ pending[1].insert_extra_newline # old[i].insert_extra_newline
             s1 == IF differs THEN flush_pending(s, pending[1]) ELSE s
             delta1 == IF differs THEN delta + pending[1].delta ELSE delta
             start == old[i].start + delta1
             end_ == old[i].end + delta1
             text_len == Len(newline_text(old[i].indent, old[i].insert_extra_newline))
             before == IF differs \/ pending = <<>>
                       THEN [delta |-> 0, ranges |-> <<>>]
                       ELSE pending[1]
         IN newline_edits(s1, old, i + 1, delta1,
                <<[indent |-> old[i].indent,
                   insert_extra_newline |-> old[i].insert_extra_newline,
                   delta |-> before.delta + text_len - (end_ - start),
                   ranges |-> Append(before.ranges, [start |-> start, end |-> end_])]>>)

\* The last loop of Editor::newline: a caret behind the first newline and
\* indent of every selection.
RECURSIVE newline_new_selections(_, _, _)
newline_new_selections(old, i, delta) ==
    IF i > Len(old) THEN <<>>
    ELSE LET start == old[i].start + delta
             end_ == old[i].end + delta
             cursor == start + old[i].indent + 1
             text_len == Len(newline_text(old[i].indent, old[i].insert_extra_newline))
         IN <<[id |-> old[i].id, start |-> cursor, end |-> cursor,
               reversed |-> FALSE, goal |-> NoGoal]>>
            \o newline_new_selections(old, i + 1, delta + text_len - (end_ - start))

\* Editor::newline
newline(s) ==
    Then(start_transaction_at(s), LAMBDA s1 :
    Then(newline_old_selections(buffer_text(s1.cells), local_selections(s1)),
         LAMBDA old :
    Then(newline_edits(s1, old, 1, 0, <<>>), LAMBDA s2 :
    Then(update_selections(s2, newline_new_selections(old, 1, 0), <<"Fit">>),
         LAMBDA s3 :
        end_transaction_at(s3)))))

\* An indented line, a line with a bracket pair, an indented line.
NewlineText == <<" ", "a", "\n", "{", "}", "\n", " ", "b">>

\* The most selections newline is run with.
MaxNewlineRanges == 3

NewlinePoints == {1, 2, 4, 7, 8}

\* Ascending ranges that neither touch nor overlap.
NewlineRangeLists ==
    {ranges \in UNION {[1..k -> [start : NewlinePoints, end : NewlinePoints]] :
                          k \in 1..MaxNewlineRanges} :
        /\ \A i \in 1..Len(ranges) : ranges[i].start <= ranges[i].end
        /\ \A i \in 1..Len(ranges) - 1 : ranges[i].end < ranges[i + 1].start}

SelectNewlineRanges ==
    /\ ~panicked
    /\ last_op.name = "new"
    /\ \E ranges \in NewlineRangeLists :
          \E s \in {select_ranges(State, ranges, <<>>)} :
             Commit(s, Op("select_ranges", <<>>, ranges))

Newline ==
    /\ ~panicked
    /\ next_tx_id <= MaxTx
    /\ \E s \in {newline(State)} : Commit(s, Op("newline", <<>>, <<>>))

InitNewline == InitWith(NewlineText, {})

NextNewline ==
    \/ SelectNewlineRanges
    \/ Newline

SpecNewline == InitNewline /\ [][NextNewline]_vars

\* -------------------------------------------------------- claims on newline
NewlineStep == last_op'.name = "newline"

\* What newline puts at a selection: "\n" and as many spaces as the line's
\* indentation clamped to the selection's column, twice inside a bracket pair.
Inserted(text, sels, i) ==
    LET indent == Min(indent_column_for_line(text, row_of(text, sels[i].start)),
                      column_of(text, sels[i].start))
    IN newline_text(indent, newline_old_selections(text, sels)[i].insert_extra_newline)

\* The text with the insertions made one selection at a time, from the last
\* selection to the first.
RECURSIVE InsertedOneByOne(_, _, _, _)
InsertedOneByOne(text, original, sels, i) ==
    IF i = 0 THEN text
    ELSE InsertedOneByOne(
            SubSeq(text, 1, sels[i].start) \o Inserted(original, sels, i)
                \o SubSeq(text, sels[i].end + 1, Len(text)),
            original, sels, i - 1)

\* By how much the insertions at the selections in front of the i-th one
\* move it.
RECURSIVE ShiftBefore(_, _, _)
ShiftBefore(text, sels, i) ==
    IF i = 1 THEN 0
    ELSE ShiftBefore(text, sels, i - 1)
           + Len(Inserted(text, sels, i - 1)) - (sels[i - 1].end - sels[i - 1].start)

\* The caret of the i-th selection: behind its first newline and indent.
CaretBehindIndent(text, sels, i) ==
    LET once == IF newline_old_selections(text, sels)[i].insert_extra_newline
                THEN Len(Inserted(text, sels, i)) \div 2
                ELSE Len(Inserted(text, sels, i))
    IN sels[i].start + ShiftBefore(text, sels, i) + once

\* C32: after newline the text is the text with "\n" and the indent put in
\* at every selection independently, and the selections are carets with the
\* ids of the old ones, each behind its first newline and indent, however
\* the selections were batched into edits.
NewlineEqualsPerCursorInsertion ==
    [][NewlineStep =>
         /\ buffer_text(cells') =
               InsertedOneByOne(buffer_text(cells), buffer_text(cells), Local, Len(Local))
         /\ Len(Resolved') = Len(Local)
         /\ \A i \in 1..Len(Local) :
               /\ Resolved'[i].id = Local[i].id
               /\ Resolved'[i].start = CaretBehindIndent(buffer_text(cells), Local, i)
               /\ Resolved'[i].end = Resolved'[i].start]_vars

\* Three carets whose indent and extra newline differ from neighbour to
\* neighbour, so that newline made three edits.
NewlineEqualsPerCursorInsertionWitness ==
    /\ last_op.name = "newline"
    /\ Len(selections) = 3
    /\ buffer_text(cells) =
          <<" ", "a", "\n", " ", "\n", "{", "\n", "\n", "}", "\n", " ", "b", "\n", " ">>

\* ------------------------------------------------- add_selection_above/below
ColumnRange(start, end_) == [kind |-> "ColumnRange", start |-> start, end |-> end_]

\* Editor::build_columnar_selection: Option of the selection of the columns
\* on the row, under the next selection id.
build_columnar_selection(text, id, row, columns, reversed) ==
    LET is_empty == columns.start = columns.end
        len == line_len(text, row)
    IN IF columns.start < len \/ (is_empty /\ columns.start = len)
       THEN <<[id |-> id,
               start |-> row_start(text, row) + columns.start,
               end |-> row_start(text, row) + Min(columns.end, len),
               reversed |-> reversed,
               goal |-> ColumnRange(columns.start, columns.end)]>>
       ELSE <<>>

\* The loop that builds the first state: the columnar selections of the rows
\* from row to end_row.
RECURSIVE build_rows(_, _, _, _, _, _)
build_rows(text, id, row, end_row, columns, reversed) ==
    IF row > end_row THEN <<>>
    ELSE LET built == build_columnar_selection(text, id, row, columns, reversed)
         IN built \o build_rows(text, id + Len(built), row + 1, end_row, columns, reversed)

Reverse(seq) == [i \in 1..Len(seq) |-> seq[Len(seq) + 1 - i]]

\* The columns of a selection on one row, or over the rows of a range.
columns_of(text, sel) ==
    [start |-> Min(column_of(text, sel.start), column_of(text, sel.end)),
     end |-> Max(column_of(text, sel.start), column_of(text, sel.end))]

\* The while loop: Option of the selection built on the first row from row
\* towards end_row that takes the columns.
RECURSIVE next_columnar_selection(_, _, _, _, _, _, _)
next_columnar_selection(text, id, row, end_row, above, columns, reversed) ==
    IF row = end_row THEN <<>>
    ELSE LET next_row == IF above THEN row - 1 ELSE row + 1
             built == build_columnar_selection(text, id, next_row, columns, reversed)
         IN IF built # <<>> THEN built
            ELSE next_columnar_selection(text, id, next_row, end_row, above,
                                         columns, reversed)

\* add_selection searching from the last-added selection's row only as far
\* as the next row.
add_selection_next_row_only(s, above) ==
    LET text == buffer_text(s.cells)
        selections0 == local_selections(s)
        fresh == s.add_selections_state = <<>>
        oldest == min_by_id(selections0)
        built0 == build_rows(text, s.next_selection_id, row_of(text, oldest.start),
                             row_of(text, oldest.end), columns_of(text, oldest),
                             oldest.reversed)
        ids0 == [i \in 1..Len(built0) |-> built0[i].id]
        state == IF fresh
                 THEN [above |-> above, stack |-> IF above THEN Reverse(ids0) ELSE ids0]
                 ELSE s.add_selections_state[1]
        selections_ == IF fresh THEN built0 ELSE selections0
        id == s.next_selection_id + (IF fresh THEN Len(built0) ELSE 0)
        last_added_selection == state.stack[Len(state.stack)]
        end_row == IF above THEN 0 ELSE max_row(text)
        added == [i \in 1..Len(selections_) |->
            IF selections_[i].id # last_added_selection THEN <<>>
            ELSE LET row == row_of(text, selections_[i].start)
                     columns ==
                         IF selections_[i].goal.kind = "ColumnRange"
                         THEN [start |-> selections_[i].goal.start,
                               end |-> selections_[i].goal.end]
                         ELSE columns_of(text, selections_[i])
                 IN IF row = end_row THEN <<>>
                    ELSE build_columnar_selection(text, id,
                             IF above THEN row - 1 ELSE row + 1, columns,
                             selections_[i].reversed)]
        RECURSIVE pushed(_)
        pushed(i) ==
            IF i > Len(selections_) THEN <<>>
            ELSE (IF added[i] = <<>> THEN <<selections_[i]>>
                  ELSE IF above THEN added[i] \o <<selections_[i]>>
                  ELSE <<selections_[i]>> \o added[i]) \o pushed(i + 1)
        grown == \E i \in 1..Len(selections_) : added[i] # <<>>
        new_selections ==
            IF above = state.above THEN pushed(1)
            ELSE SelectSeq(selections_, LAMBDA sel : sel.id # last_added_selection)
        stack == IF above = state.above
                 THEN IF grown THEN Append(state.stack, id) ELSE state.stack
                 ELSE SubSeq(state.stack, 1, Len(state.stack) - 1)
        s1 == update_selections([s EXCEPT !.next_selection_id =
                                     id + (IF above = state.above /\ grown THEN 1 ELSE 0)],
                                new_selections, <<"Fit">>)
    IN IF state.stack = <<>> THEN [s EXCEPT !.panicked = TRUE]
       ELSE [s1 EXCEPT !.add_selections_state =
                IF Len(stack) > 1 THEN <<[above |-> state.above, stack |-> stack]>>
                ELSE <<>>]

\* Editor::add_selection
add_selection(s, above) ==
    LET text == buffer_text(s.cells)
        selections0 == local_selections(s)
        fresh == s.add_selections_state = <<>>
        oldest == min_by_id(selections0)
        built0 == build_rows(text, s.next_selection_id, row_of(text, oldest.start),
                             row_of(text, oldest.end), columns_of(text, oldest),
                             oldest.reversed)
        ids0 == [i \in 1..Len(built0) |-> built0[i].id]
        state == IF fresh
                 THEN [above |-> above, stack |-> IF above THEN Reverse(ids0) ELSE ids0]
                 ELSE s.add_selections_state[1]
        selections_ == IF fresh THEN built0 ELSE selections0
        id == s.next_selection_id + (IF fresh THEN Len(built0) ELSE 0)
        last_added_selection == state.stack[Len(state.stack)]
        end_row == IF above THEN 0 ELSE max_row(text)
        added == [i \in 1..Len(selections_) |->
            IF selections_[i].id # last_added_selection THEN <<>>
            ELSE LET columns ==
                         IF selections_[i].goal.kind = "ColumnRange"
                         THEN [start |-> selections_[i].goal.start,
                               end |-> selections_[i].goal.end]
                         ELSE columns_of(text, selections_[i])
                 IN next_columnar_selection(text, id,
                        row_of(text, selections_[i].start), end_row, above, columns,
                        selections_[i].reversed)]
        RECURSIVE pushed(_)
        pushed(i) ==
            IF i > Len(selections_) THEN <<>>
            ELSE (IF added[i] = <<>> THEN <<selections_[i]>>
                  ELSE IF above THEN added[i] \o <<selections_[i]>>
                  ELSE <<selections_[i]>> \o added[i]) \o pushed(i + 1)
        grown == \E i \in 1..Len(selections_) : added[i] # <<>>
        new_selections ==
            IF above = state.above THEN pushed(1)
            ELSE SelectSeq(selections_, LAMBDA sel : sel.id # last_added_selection)
        stack == IF above = state.above
                 THEN IF grown THEN Append(state.stack, id) ELSE state.stack
                 ELSE SubSeq(state.stack, 1, Len(state.stack) - 1)
        s1 == update_selections([s EXCEPT !.next_selection_id =
                                     id + (IF above = state.above /\ grown THEN 1 ELSE 0)],
                                new_selections, <<"Fit">>)
    IN IF state.stack = <<>> THEN [s EXCEPT !.panicked = TRUE]
       ELSE [s1 EXCEPT !.add_selections_state =
                IF Len(stack) > 1 THEN <<[above |-> state.above, stack |-> stack]>>
                ELSE <<>>]

\* Lines of one, two, no and two characters.
AddSelectionText == <<"a", "\n", "a", "b", "\n", "\n", "a", "b">>

\* A caret in column 1, a range over columns 0..2, a range over two rows,
\* a caret in column 0, a caret and a range.
AddSelectionRangeLists ==
    {<<[start |-> 1, end |-> 1]>>, <<[start |-> 6, end |-> 8]>>,
     <<[start |-> 1, end |-> 3]>>, <<[start |-> 2, end |-> 2]>>,
     <<[start |-> 0, end |-> 0], [start |-> 6, end |-> 7]>>}

\* The greatest selection id add_selection starts from.
MaxAddSelId == 8

SelectAddSelectionRanges ==
    /\ ~panicked
    /\ last_op.name # "select_ranges"
    /\ next_selection_id <= MaxAddSelId
    /\ \E ranges \in AddSelectionRangeLists :
          \E reversed \in BOOLEAN :
             \E s \in {select_ranges(State,
                           [i \in 1..Len(ranges) |->
                               IF reversed
                               THEN [start |-> ranges[i].end, end |-> ranges[i].start]
                               ELSE ranges[i]], <<>>)} :
                Commit(s, Op("select_ranges", <<>>, ranges))

AddSelection ==
    /\ ~panicked
    /\ next_selection_id <= MaxAddSelId
    /\ \E above \in BOOLEAN :
          \E s \in {add_selection(State, above)} :
             Commit(s, Op("add_selection", <<>>, <<above>>))

InitAddSelection == InitWith(AddSelectionText, {})

NextAddSelection ==
    \/ SelectAddSelectionRanges
    \/ AddSelection

SpecAddSelection == InitAddSelection /\ [][NextAddSelection]_vars

\* -------------------------------------------------- claims on add_selection
\* The row is long enough for the columns.
TakesColumns(text, row, columns) ==
    \/ columns.start < line_len(text, row)
    \/ columns.start = columns.end /\ columns.start = line_len(text, row)

\* The range of the columns on a row, clipped to the row's length.
ColumnsOnRow(text, row, columns) ==
    [start |-> row_start(text, row) + columns.start,
     end |-> row_start(text, row) + Min(columns.end, line_len(text, row))]

\* The rows beyond row in the direction that take the columns.
RowsBeyond(text, row, above, columns) ==
    {r \in 0..max_row(text) :
        /\ IF above THEN r < row ELSE r > row
        /\ TakesColumns(text, r, columns)}

\* The nearest of a non-empty set of rows beyond a row.
Nearest(rows, above) ==
    CHOOSE r \in rows : \A q \in rows : IF above THEN q <= r ELSE q >= r

RangesIn(sels) == {[start |-> sels[i].start, end |-> sels[i].end] : i \in 1..Len(sels)}

IdsIn(sels) == {sels[i].id : i \in 1..Len(sels)}

\* The selection of the state's stack that was added last.
LastAdded ==
    LET stack == add_selections_state[1].stack
    IN CHOOSE i \in 1..Len(Local) : Local[i].id = stack[Len(stack)]

\* The stack after the call, also when the state was dropped because one
\* entry was left.
StackAfter(s, before) ==
    IF s.add_selections_state # <<>> THEN s.add_selections_state[1].stack
    ELSE SubSeq(before, 1, 1)

\* A call in the direction of the state adds one selection, on the nearest
\* row that takes the columns of the last-added one, or changes nothing.
AddsOnNearestRow(s, above) ==
    LET text == buffer_text(cells)
        sel == Local[LastAdded]
        columns == [start |-> sel.goal.start, end |-> sel.goal.end]
        rows == RowsBeyond(text, row_of(text, sel.start), above, columns)
        after == resolve_selections(s.cells, s.selections)
    IN IF rows = {}
       THEN /\ after = Local
            /\ s.add_selections_state = add_selections_state
       ELSE /\ Len(after) = Len(Local) + 1
            /\ RangesIn(after) =
                  RangesIn(Local) \cup {ColumnsOnRow(text, Nearest(rows, above), columns)}
            /\ \E i \in 1..Len(after) :
                  /\ after[i].id \notin IdsIn(Local)
                  /\ [start |-> after[i].start, end |-> after[i].end]
                        = ColumnsOnRow(text, Nearest(rows, above), columns)
                  /\ s.add_selections_state[1].stack
                        = Append(add_selections_state[1].stack, after[i].id)

\* A call against the direction of the state removes the last-added
\* selection and adds none.
RemovesLastAdded(s) ==
    /\ resolve_selections(s.cells, s.selections)
          = SelectSeq(Local, LAMBDA sel : sel.id # Local[LastAdded].id)
    /\ LET stack == add_selections_state[1].stack
       IN StackAfter(s, stack) = SubSeq(stack, 1, Len(stack) - 1)

\* C33: in every state with an add-selections state active, add_selection in
\* the state's direction adds one columnar selection for the last-added
\* selection on the nearest row in that direction that is long enough, or
\* leaves the selections and the stack as they are when there is no such
\* row; in the other direction it removes the last-added selection and pops
\* it from the stack.
AddSelectionKeepsStack ==
    add_selections_state # <<>> =>
        \A above \in BOOLEAN :
            IF above = add_selections_state[1].above
            THEN AddsOnNearestRow(add_selection(State, above), above)
            ELSE RemovesLastAdded(add_selection(State, above))

\* With the state active, a caret was added on the last row, past the empty
\* row.
AddSelectionKeepsStackWitness ==
    /\ last_op.name = "add_selection"
    /\ add_selections_state # <<>>
    /\ Len(add_selections_state[1].stack) = 3
    /\ RangesIn(Resolved) = {[start |-> 1, end |-> 1], [start |-> 3, end |-> 3],
                             [start |-> 7, end |-> 7]}

\* A call against the direction took the last-added selection away.
AddSelectionRemovedWitness ==
    /\ last_op = Op("add_selection", <<>>, <<TRUE>>)
    /\ add_selections_state # <<>>
    /\ ~add_selections_state[1].above
    /\ RangesIn(Resolved) = {[start |-> 1, end |-> 1], [start |-> 3, end |-> 3]}

\* ------------------------------------------ claims on the syntax stack frame
\* Some selection has a syntax node around it that is larger than it.
SomeLargerAncestor ==
    \E i \in 1..Len(Local) :
        range_for_syntax_ancestor(buffer_text(cells),
            [start |-> Local[i].start, end |-> Local[i].end]) # <<>>

\* C34: in every state select_larger pushes the selections it found, and
\* only those, when some selection has a larger node around it, and
\* otherwise leaves the selections, the stack and all else as they are;
\* select_smaller with an empty stack leaves everything as it is.
SelectLargerPushesOnlyOnGrowth ==
    /\ IF SomeLargerAncestor
       THEN select_larger_syntax_node(State).select_larger_syntax_node_stack
               = Append(select_larger_syntax_node_stack, Local)
       ELSE select_larger_syntax_node(State) = State
    /\ select_larger_syntax_node_stack = <<>>
          => select_smaller_syntax_node(State) = State

\* select_larger was called with every selection at the outermost node,
\* after earlier calls had filled the stack.
SelectLargerPushesOnlyOnGrowthWitness ==
    /\ last_op.name = "select_larger"
    /\ ~SomeLargerAncestor
    /\ Len(select_larger_syntax_node_stack) >= 2

\* select_smaller was called until the stack was empty.
SelectSmallerOnEmptyStack ==
    /\ last_op.name = "select_smaller"
    /\ select_larger_syntax_node_stack = <<>>
    /\ Len(selections) = 2

\* ------------------------------------------- claims on undo with no history
\* C35: in every state where the buffer has nothing to undo, undo leaves the
\* text, the selections, the selection history, the autoscroll request and
\* all else as they are; so does redo where there is nothing to redo.
UndoRedoOfNothingIsNoOp ==
    /\ undo_stack = <<>> => undo(State) = State
    /\ redo_stack = <<>> => redo(State) = State

\* undo was called once more after everything had been undone.
UndoRedoOfNothingIsNoOpWitness ==
    /\ last_op = Op("undo", <<>>, <<>>)
    /\ undo_stack = <<>>
    /\ redo_stack # <<>>

\* redo was called with nothing to redo after an edit.
RedoOfNothing ==
    /\ last_op = Op("redo", <<>>, <<>>)
    /\ redo_stack = <<>>
    /\ undo_stack # <<>>

\* ------------------------------------------- commands that nest transactions
\* movement::line_beginning without toggle_indent / movement::line_end
line_beginning(text, offset) == line_start(text, offset)
line_end(text, offset) ==
    row_start(text, row_of(text, offset)) + line_len(text, row_of(text, offset))

\* Editor::select_to_beginning_of_line(false)
select_to_beginning_of_line(s) ==
    LET text == buffer_text(s.cells)
    IN move_each(s, LAMBDA sel :
           [set_head(sel, line_beginning(text, head(sel))) EXCEPT !.goal = NoGoal])

\* Editor::select_to_end_of_line
select_to_end_of_line(s) ==
    LET text == buffer_text(s.cells)
    IN move_each(s, LAMBDA sel :
           [set_head(sel, line_end(text, head(sel))) EXCEPT !.goal = NoGoal])

\* Editor::select_all
select_all(s) ==
    update_selections([s EXCEPT !.next_selection_id = @ + 1],
                      <<[id |-> s.next_selection_id, start |-> 0,
                         end |-> buffer_len(s.cells), reversed |-> FALSE,
                         goal |-> NoGoal]>>, <<>>)

\* Editor::backspace
backspace(s) ==
    Then(start_transaction_at(s), LAMBDA s1 :
    Then(move_each(s1, LAMBDA sel :
             IF sel.start = sel.end
             THEN [set_head(sel, movement_left(buffer_text(s1.cells), head(sel)))
                     EXCEPT !.goal = NoGoal]
             ELSE sel), LAMBDA s2 :
    Then(insert(s2, <<>>), LAMBDA s3 :
        end_transaction_at(s3))))

\* Editor::delete
delete(s) ==
    Then(start_transaction_at(s), LAMBDA s1 :
    Then(move_each(s1, LAMBDA sel :
             IF sel.start = sel.end
             THEN [set_head(sel, movement_right(buffer_text(s1.cells), head(sel)))
                     EXCEPT !.goal = NoGoal]
             ELSE sel), LAMBDA s2 :
    Then(insert(s2, <<>>), LAMBDA s3 :
        end_transaction_at(s3))))

\* Editor::clear
clear(s) ==
    Then(start_transaction_at(s), LAMBDA s1 :
    Then(select_all(s1), LAMBDA s2 :
    Then(insert(s2, <<>>), LAMBDA s3 :
        end_transaction_at(s3))))

\* Editor::delete_to_beginning_of_line
delete_to_beginning_of_line(s) ==
    Then(start_transaction_at(s), LAMBDA s1 :
    Then(select_to_beginning_of_line(s1), LAMBDA s2 :
    Then(backspace(s2), LAMBDA s3 :
        end_transaction_at(s3))))

\* delete_to_end_of_line extending the selections before it opens its
\* transaction.
delete_to_end_of_line_selecting_first(s) ==
    Then(select_to_end_of_line(end_selection(s)), LAMBDA s1 :
    Then(start_transaction_at(s1), LAMBDA s2 :
    Then(delete(s2), LAMBDA s3 :
        end_transaction_at(s3))))

\* Editor::delete_to_end_of_line
delete_to_end_of_line(s) ==
    Then(start_transaction_at(s), LAMBDA s1 :
    Then(select_to_end_of_line(s1), LAMBDA s2 :
    Then(delete(s2), LAMBDA s3 :
        end_transaction_at(s3))))

\* Editor::cut_to_end_of_line
cut_to_end_of_line(s) ==
    Then(start_transaction_at(s), LAMBDA s1 :
    Then(select_to_end_of_line(s1), LAMBDA s2 :
    Then(cut(s2), LAMBDA s3 :
        end_transaction_at(s3))))

\* The highest selection id a drag or a clear starts under.
MaxNestedSelId == 1

NestedText == <<"a", "b", "\n", "c">>
NestedClickPoints == {1}
NestedDragPoints == {0, 3}

\* A click that starts a drag, and the drag to one further position.
BeginDrag ==
    /\ ~panicked
    /\ next_selection_id <= MaxNestedSelId
    /\ \E position \in NestedClickPoints \cap 0..buffer_len(cells) :
          \E s \in {begin_selection(State, position, FALSE, 1)} :
             Commit(s, Op("begin", <<>>, <<position>>))

UpdateDrag ==
    /\ ~panicked
    /\ pending_selection # <<>>
    /\ last_op.name = "begin"
    /\ \E position \in NestedDragPoints \cap 0..buffer_len(cells) :
          \E s \in {update_selection(State, position, 0, 0)} :
             Commit(s, Op("update", <<>>, <<position>>))

\* The commands that wrap other commands in a transaction of their own.
NestedCommand ==
    /\ ~panicked
    /\ next_tx_id <= MaxTx
    /\ \/ \E s \in {delete_to_beginning_of_line(State)} :
             Commit(s, Op("delete_to_beginning_of_line", <<>>, <<>>))
       \/ \E s \in {delete_to_end_of_line(State)} :
             Commit(s, Op("delete_to_end_of_line", <<>>, <<>>))
       \/ \E s \in {cut_to_end_of_line(State)} :
             Commit(s, Op("cut_to_end_of_line", <<>>, <<>>))
       \/ /\ next_selection_id <= MaxNestedSelId
          /\ \E s \in {clear(State)} : Commit(s, Op("clear", <<>>, <<>>))
       \/ \E s \in {handle_input(State, <<"{">>, FALSE)} :
             Commit(s, Op("handle_input", <<>>, <<>>))

NextNested ==
    \/ BeginDrag
    \/ UpdateDrag
    \/ NestedCommand
    \/ Undo
    \/ Tick

InitNested == InitWith(NestedText, {})

SpecNested == InitNested /\ [][NextNested]_vars

\* ------------------------------------- claims on commands that nest transactions
NestedNames == {"delete_to_beginning_of_line", "delete_to_end_of_line",
                "cut_to_end_of_line", "clear", "handle_input"}

\* The step is one of the nesting commands opening a transaction.
NestedStep ==
    /\ last_op'.name \in NestedNames
    /\ next_tx_id' = next_tx_id + 1

\* Text and selections of a state.
TextOf(s) == buffer_text(s.cells)
ResolvedOf(s) == resolve_selections(s.cells, s.selections)

\* One undo after the command: where the buffer kept the command's
\* transaction, the text and the selections are those of before the command,
\* or of before the group the buffer put the transaction into.
OneUndoReverts(before, after, id) ==
    /\ after.undo_stack # <<>>
    /\ \E m \in DOMAIN Top(after.undo_stack).members :
          Top(after.undo_stack).members[m] = id
    => LET undone == undo(after)
           group == Top(after.undo_stack).id
       IN /\ Len(undone.undo_stack) = Len(after.undo_stack) - 1
          /\ TextOf(undone) = after.tx_log[group].text0
          /\ ResolvedOf(undone) = after.tx_log[group].sels0
          /\ group = id => /\ TextOf(undone) = TextOf(before)
                           /\ ResolvedOf(undone) = ResolvedOf(before)
                           /\ undone.selections = before.selections

\* C36: a command that nests transactions records one snapshot, under the id
\* of its outermost transaction: the selections as they were when the
\* command was called, a pending drag committed into them, and none of the
\* command's own selection changes; the transaction is closed when the
\* command returns, and one undo reverts the whole command and installs
\* that snapshot.
NestedCommandRecordsOutermost ==
    [][NestedStep =>
        LET id == next_tx_id
            before == end_selection(State)
        IN /\ DOMAIN selection_history' = DOMAIN selection_history \cup {id}
           /\ selection_history'[id].before = before.selections
           /\ before.pending_selection = <<>>
           /\ ResolvedOf(before) = Local
           /\ transaction_depth' = 0
           /\ Len(undo_stack') <= Len(undo_stack) + 1
           /\ \A k \in DOMAIN selection_history :
                 selection_history'[k].before = selection_history[k].before
           /\ OneUndoReverts(before, State', id)]_vars

\* delete_to_end_of_line was called during a drag and deleted text: the
\* snapshot holds the dragged range, not the range extended to the line end.
NestedCommandRecordsOutermostWitness ==
    /\ last_op.name = "delete_to_end_of_line"
    /\ undo_stack # <<>>
    /\ Top(undo_stack).id = next_tx_id - 1
    /\ Top(undo_stack).del # {}
    /\ LET id == next_tx_id - 1
       IN /\ Len(tx_log[id].sels0) = 1
          /\ tx_log[id].sels0[1].start = 0
          /\ tx_log[id].sels0[1].end = 1
          /\ tx_log[id].sels0[1].reversed
          /\ tx_log[id].text1 = <<<<"a", "\n", "c">>>>

\* The undo of a cut_to_end_of_line called during a drag brought the text and
\* the dragged range back.
NestedUndone ==
    /\ last_op.name = "undo"
    /\ last_op.id # <<>>
    /\ pending_selection = <<>>
    /\ clipboard # <<>>
    /\ buffer_text(cells) = NestedText
    /\ Len(Resolved) = 1
    /\ Resolved[1].start = 1
    /\ Resolved[1].end = 3

\* --------------------------------------------------- at least one selection
\* Two lines holding the same word.
LiveText == <<"a", "b", "\n", "a", "b">>

\* The offsets clicked and dragged to.
LivePoints == {1, 5}

\* The greatest selection id a command that makes selections starts from.
MaxLiveSelId == 4

\* The number of transactions the editing commands open.
MaxLiveTx == 1

\* begin_selection with add = false.
LiveBegin ==
    /\ ~panicked
    /\ next_selection_id <= MaxLiveSelId
    /\ \E position \in LivePoints \cap 0..buffer_len(cells) :
          \E s \in {begin_selection(State, position, FALSE, 1)} :
             Commit(s, Op("begin", <<>>, <<position>>))

\* begin_columnar_selection
LiveBeginColumnar ==
    /\ ~panicked
    /\ next_selection_id + 1 <= MaxLiveSelId
    /\ \E position \in LivePoints \cap 0..buffer_len(cells) :
          \E s \in {begin_columnar_selection(State, position, 0)} :
             Commit(s, Op("begin_columnar", <<>>, <<position>>))

\* update_selection to one position during a drag, columnar or not.
LiveUpdate ==
    /\ ~panicked
    /\ pending_selection # <<>> \/ columnar_selection_tail # <<>>
    /\ last_op.name \in {"begin", "begin_columnar"}
    /\ columnar_selection_tail # <<>> => next_selection_id + 1 <= MaxLiveSelId
    /\ \E position \in LivePoints \cap 0..buffer_len(cells) :
          \E s \in {update_selection(State, position, 0, 0)} :
             Commit(s, Op("update", <<>>, <<position>>))

\* The branch Editor::add_selection takes; "stale" where it removes the last
\* added selection and no live selection has that id.
add_selection_branch(s, above) ==
    IF s.add_selections_state = <<>> THEN "fresh"
    ELSE IF above = s.add_selections_state[1].above THEN "same"
    ELSE LET stack == s.add_selections_state[1].stack
             live == local_selections(s)
         IN IF \E i \in 1..Len(live) : live[i].id = stack[Len(stack)]
            THEN "opposite"
            ELSE "stale"

\* add_selection_above / add_selection_below
LiveAddSelection ==
    /\ ~panicked
    /\ next_selection_id + 1 <= MaxLiveSelId
    /\ \E above \in BOOLEAN :
          \E s \in {add_selection(State, above)} :
             Commit(s, Op("add_selection", <<add_selection_branch(State, above)>>,
                          <<above>>))

\* select_next replacing the newest selection.
LiveSelectNext ==
    /\ ~panicked
    /\ next_selection_id <= MaxLiveSelId
    /\ \E s \in {select_next(State, TRUE)} :
          Commit(s, Op("select_next", <<>>, <<TRUE>>))

\* Editing commands: typing a character, backspace.
LiveEdit ==
    /\ ~panicked
    /\ next_tx_id <= MaxLiveTx
    /\ \/ \E s \in {insert(State, <<"a">>)} : Commit(s, Op("insert", <<>>, <<"a">>))
       \/ \E s \in {backspace(State)} : Commit(s, Op("backspace", <<>>, <<>>))

InitLive == InitWith(LiveText, {})

NextLive ==
    \/ LiveBegin
    \/ LiveBeginColumnar
    \/ LiveUpdate
    \/ Cancel
    \/ LiveAddSelection
    \/ LiveSelectNext
    \/ LiveEdit
    \/ Undo
    \/ Redo

SpecLive == InitLive /\ [][NextLive]_vars

\* ------------------------------------------- claims on at least one selection
\* C37: in every reachable state the committed selections together with the
\* pending selection are not empty, no lookup of a selection has failed, and
\* the lookups of the first, last, oldest and newest selection succeed.
AtLeastOneSelection ==
    /\ ~panicked
    /\ selections # <<>> \/ pending_selection # <<>>
    /\ Local # <<>>
    /\ oldest_selection(State) # <<>>
    /\ newest_selection(State) # <<>>

\* begin_selection with add = false: the pending selection is the only one.
AtLeastOneSelectionWitness ==
    /\ last_op.name = "begin"
    /\ selections = <<>>
    /\ pending_selection # <<>>

\* cancel after begin_selection with add = false put the pending selection
\* back as the only committed one.
CancelledToPending ==
    /\ last_op.name = "cancel"
    /\ last_op.id = <<"pending">>
    /\ Len(selections) = 1
    /\ pending_selection = <<>>

\* add_selection in the opposite direction was called on an add_selections
\* state left behind by an undo, whose last added id is no live selection.
OppositeOnStaleStack ==
    /\ last_op.name = "add_selection"
    /\ last_op.id = <<"stale">>
    /\ Len(selections) = 1

\* ------------------------------------------------ split_selection_into_lines
\* The loop of Editor::split_selection_into_lines over the selections from
\* index i on, id being the next selection id: a caret at the end of every
\* row a selection spans but its last, ids taken from the counter, and a
\* caret at the end of the selection, under the selection's id.
RECURSIVE split_loop(_, _, _, _)
split_loop(text, sels, i, id) ==
    IF i > Len(sels) THEN [selections |-> <<>>, id |-> id]
    ELSE LET selection == sels[i]
             start_row == row_of(text, selection.start)
             end_row == row_of(text, selection.end)
             cursors == [k \in 1..(end_row - start_row) |->
                 LET cursor == row_start(text, start_row + k - 1)
                                   + line_len(text, start_row + k - 1)
                 IN [id |-> id + k - 1, start |-> cursor, end |-> cursor,
                     reversed |-> FALSE, goal |-> NoGoal]]
             rest == split_loop(text, sels, i + 1, id + end_row - start_row)
         IN [selections |-> cursors
                 \o <<[id |-> selection.id, start |-> selection.end,
                       end |-> selection.end, reversed |-> FALSE, goal |-> NoGoal]>>
                 \o rest.selections,
             id |-> rest.id]

\* Editor::unfold_ranges: the display map drops the folds that the ranges
\* touch.
unfold_ranges(s, ranges) ==
    IF ranges = <<>> THEN s
    ELSE request_autoscroll(
             [s EXCEPT !.folds =
                 {f \in @ : ~\E i \in 1..Len(ranges) :
                     /\ summary_after(s.cells, f.start) <= ranges[i].end
                     /\ summary_before(s.cells, f.end) >= ranges[i].start}], "Fit")

\* split_selection_into_lines giving every new caret the selection's id.
split_selection_into_lines_same_id(s) ==
    Then(local_selections(s), LAMBDA selections_ :
    Then(split_loop(buffer_text(s.cells), selections_, 1, s.next_selection_id),
         LAMBDA split :
    Then(unfold_ranges(s, [i \in 1..Len(selections_) |->
             [start |-> selections_[i].start, end |-> selections_[i].end]]), LAMBDA s1 :
        update_selections(s1,
            [k \in 1..Len(split.selections) |->
                [split.selections[k] EXCEPT !.id =
                    IF @ >= s.next_selection_id THEN selections_[1].id ELSE @]],
            <<"Fit">>))))

\* Editor::split_selection_into_lines
split_selection_into_lines(s) ==
    Then(local_selections(s), LAMBDA selections_ :
    Then(split_loop(buffer_text(s.cells), selections_, 1, s.next_selection_id),
         LAMBDA split :
    Then(unfold_ranges(s, [i \in 1..Len(selections_) |->
             [start |-> selections_[i].start, end |-> selections_[i].end]]), LAMBDA s1 :
        update_selections([s1 EXCEPT !.next_selection_id = split.id],
                          split.selections, <<"Fit">>))))

\* ---------------------------------------------------------- selection ids
\* Ranges over one or two rows, alone or in overlapping pairs.
IdRangeLists ==
    {<<[start |-> 0, end |-> 3]>>, <<[start |-> 2, end |-> 5]>>,
     <<[start |-> 0, end |-> 2], [start |-> 2, end |-> 4]>>,
     <<[start |-> 1, end |-> 1], [start |-> 4, end |-> 5]>>}

\* The offsets clicked.
IdPoints == {0, 3}

\* The greatest selection id a command that makes selections starts from.
MaxIdsSelId == 3

\* select_ranges, never twice in a row.
SelectIdRanges ==
    /\ ~panicked
    /\ last_op.name # "select_ranges"
    /\ next_selection_id <= MaxIdsSelId
    /\ \E ranges \in IdRangeLists :
          /\ \A i \in 1..Len(ranges) : ranges[i].end <= buffer_len(cells)
          /\ \E s \in {select_ranges(State, ranges, <<>>)} :
                Commit(s, Op("select_ranges", <<>>, ranges))

\* begin_selection adding a selection to the existing ones.
AddPending ==
    /\ ~panicked
    /\ pending_selection = <<>>
    /\ next_selection_id <= MaxIdsSelId
    /\ \E position \in IdPoints \cap 0..buffer_len(cells) :
          \E s \in {begin_selection(State, position, TRUE, 1)} :
             Commit(s, Op("begin", <<>>, <<position>>))

\* Editor::split_selection_into_lines.
SplitSelectionIntoLines ==
    /\ ~panicked
    /\ next_selection_id <= MaxIdsSelId
    /\ \E s \in {split_selection_into_lines(State)} :
          Commit(s, Op("split_selection_into_lines", <<>>, <<>>))

\* Transactions in the scenarios of the selection ids.
MaxIdsTx == 1

\* Editor::delete_line where the buffer clips the cursor columns.
DeleteLineClipping ==
    /\ ~panicked
    /\ next_tx_id <= MaxIdsTx
    /\ \E s \in {delete_line(State, TRUE)} :
          Commit(s, Op("delete_line", <<>>, <<>>))

\* Editor::select_smaller_syntax_node where an undo or a redo may have left
\* the stack with offsets beyond the end of the text: clips says whether the
\* buffer clips such an offset (otherwise it panics).
select_smaller_clipping(s, clips) ==
    LET stack == s.select_larger_syntax_node_stack
        len == buffer_len(s.cells)
    IN IF stack = <<>> THEN s
       ELSE LET top == stack[Len(stack)]
            IN IF \A i \in 1..Len(top) : top[i].end <= len
               THEN select_smaller_syntax_node(s)
               ELSE IF ~clips THEN [s EXCEPT !.panicked = TRUE]
               ELSE select_smaller_syntax_node(
                        [s EXCEPT !.select_larger_syntax_node_stack[Len(stack)] =
                            [i \in 1..Len(top) |->
                                [top[i] EXCEPT !.start = Min(@, len),
                                               !.end = Min(@, len)]]])

SelectSmallerClipping ==
    /\ ~panicked
    /\ \E clips \in BOOLEAN :
          \E s \in {select_smaller_clipping(State, clips)} :
             Commit(s, Op("select_smaller", <<>>, <<>>))

InitIds == InitWith(DeleteLineText, {})

NextIds ==
    \/ SelectIdRanges
    \/ AddPending
    \/ SplitSelectionIntoLines
    \/ DeleteLineClipping
    \/ SelectLargerBounded
    \/ SelectSmallerClipping
    \/ Undo
    \/ Redo

SpecIds == InitIds /\ [][NextIds]_vars

\* ------------------------------------------------- claims on selection ids
\* The committed selections and the pending one.
LiveSelections ==
    selections \o (IF pending_selection = <<>> THEN <<>>
                   ELSE <<pending_selection[1].selection>>)

\* The ids of the live selections are pairwise distinct and below the counter.
DistinctIds ==
    /\ \A i, j \in 1..Len(LiveSelections) :
          i # j => LiveSelections[i].id # LiveSelections[j].id
    /\ \A i \in 1..Len(LiveSelections) : LiveSelections[i].id < next_selection_id

\* C38: in every reachable state the ids of the committed and pending
\* selections are pairwise distinct and smaller than next_selection_id, and
\* no step makes next_selection_id smaller.
SelectionIdsDistinct ==
    /\ []DistinctIds
    /\ [][next_selection_id' >= next_selection_id]_vars

\* split_selection_into_lines made carets under new ids next to the caret
\* that keeps the id of the selection split.
SelectionIdsDistinctWitness ==
    /\ last_op.name = "split_selection_into_lines"
    /\ Len(selections) = 3
    /\ selections[3].id < selections[1].id
    /\ selections[1].id < selections[2].id

\* An undo put an older snapshot back while a pending selection is live.
OlderSnapshotUnderPending ==
    /\ last_op.name = "undo"
    /\ last_op.id # <<>>
    /\ pending_selection # <<>>
    /\ Len(selections) >= 2

\* select_smaller put back the selections of before select_larger after a
\* selection was added by a click.
RestoredUnderPending ==
    /\ last_op.name = "select_smaller"
    /\ Len(selections) = 2
    /\ next_selection_id >= 4

\* delete_line left one caret for two selections on neighbouring rows.
CoalescedIds ==
    /\ last_op.name = "delete_line"
    /\ Len(selections) = 1
    /\ selections[1].id > 0
    /\ undo_stack # <<>>
    /\ Cardinality(Top(undo_stack).del) >= 4

\* ------------------------------------------------------- the shared buffer
\* Another editor edits the buffer the editor shares with it: a transaction
\* of the buffer the editor takes no part in (start_transaction_at, edit,
\* end_transaction_at called on the buffer).
other_editor_edit(s, range, text) == buffer_edit(s, <<range>>, text)

OtherEditorEdit ==
    /\ ~panicked
    /\ transaction_depth = 0
    /\ next_tx_id <= MaxTx
    /\ buffer_len(cells) >= 1
    /\ \E s \in {other_editor_edit(State, [start |-> 0, end |-> 1], <<"a">>)} :
          Commit(s, Op("other_editor_edit", <<>>, <<>>))

NextShared ==
    \/ SelectRanges
    \/ Insert
    \/ OtherEditorEdit
    \/ Undo
    \/ Redo
    \/ Tick

SpecShared == Init /\ [][NextShared]_vars

\* ------------------------------------------------ claims on end_transaction
\* C39: end_transaction_at never fails: the selection history holds a
\* snapshot for every transaction id the buffer returns at the end of an
\* editor transaction, also when the buffer grouped the transaction with one
\* made by another editor.
EndTransactionNeverFails == ~panicked

\* The unwrap of end_transaction_at fails only where the transaction below
\* the editor's on the undo stack was made within the group interval and has
\* no snapshot in the selection history.
EndTransactionFailsOnlyInForeignGroup ==
    [][panicked' /\ ~panicked =>
        /\ undo_stack # <<>>
        /\ Top(undo_stack).id \notin DOMAIN selection_history
        /\ contiguous /\ ~idle
        /\ last_op'.name = "insert"]_vars

\* An insert after the other editor's edit and after the group interval has
\* passed: the editor's transaction stands alone and its snapshots are
\* recorded.
InsertAfterInterval ==
    /\ last_op.name = "insert"
    /\ ~panicked
    /\ Len(undo_stack) = 2
    /\ undo_stack[1].id \notin DOMAIN selection_history
    /\ Top(undo_stack).id \in DOMAIN selection_history
    /\ selection_history[Top(undo_stack).id].after # <<>>

\* -------------------------------------------- the autoclose stack and undo
NextAutocloseUndo ==
    \/ SelectCarets
    \/ HandleInput
    \/ Undo
    \/ Redo

SpecAutocloseUndo == InitAutoclose /\ [][NextAutocloseUndo]_vars

\* ------------------------------------ claims on the autoclose stack and undo
\* C40: in every reachable state with an entry on the autoclose stack, where
\* typing the entry's end-token reaches the debug assertion of
\* skip_autoclose_end, the number of live selections equals the number of
\* ranges of the top entry, and the assertion has never failed.
AutocloseRangesMatchSelections ==
    /\ ~panicked
    /\ autoclose_stack # <<>> => Len(Local) = Len(Top(autoclose_stack).ranges)

\* The numbers differ only after an undo or a redo, or in a state that
\* descends from one without the selections having been updated since.
AutocloseRangesDifferOnlyAfterUndo ==
    [][/\ autoclose_stack' # <<>>
       /\ Len(resolve_selections(cells', selections')) # Len(Top(autoclose_stack').ranges)
       /\ (autoclose_stack # <<>> => Len(Local) = Len(Top(autoclose_stack).ranges))
       => last_op'.name \in {"undo", "redo"}]_vars

\* The end-token was typed at two carets behind two autoclosed brackets and
\* skipped: the entry held a range for each caret.
AutocloseSkippedAtTwoCarets ==
    /\ last_op.name = "handle_input_skip"
    /\ ~panicked
    /\ Len(selections) = 2

\* The end-token was typed after an undo in a build with debug assertions:
\* the assertion of skip_autoclose_end failed.
AutocloseAssertionFailed ==
    /\ panicked
    /\ last_op.name = "handle_input_skip"
    /\ last_op.input = <<"}">>
    /\ Len(Local) # Len(Top(autoclose_stack).ranges)

====
